---------------------------- MODULE Spec2Model ----------------------------
(***************************************************************************)
(* Hybrid ranking and recommendation engine (hetref/ai-assistant-rag).     *)
(*                                                                         *)
(* Part I   record normalisation: parse_business_from_text and the writers *)
(*          that produce the documents it reads (src/upload_api.py).       *)
(* Part II  hybrid ranking: search_businesses_vectorized                   *)
(*          (src/upload_api.py) with the geo helpers of src/utils.py.      *)
(*                                                                         *)
(* Conventions of the model                                                *)
(*  - Optional values: None is <<>>, a present value x is <<x>>.           *)
(*  - A Python string that the code splits on "," is a Text: the sequence  *)
(*    of its comma-free pieces ("coffee,wifi" is <<"coffee", "wifi">>, ""  *)
(*    is <<"">>), so that split(",") and join are computed, not assumed.   *)
(*  - Coordinates are integers in metres of arc (1 unit = 1/111194.93      *)
(*    degree); all modelled points lie on the user's meridian, where the   *)
(*    haversine formula of calculate_distance reduces to R * |dlat| and is *)
(*    |a - b| metres.  Distances are in metres, distance_km in hundredths  *)
(*    of a km (round(distance, 2)), vector scores and weights in tenths.   *)
(***************************************************************************)
EXTENDS Integers, Sequences, FiniteSets, TLC

VARIABLES
    record_in,   \* the DataRecord registered for the round trip, or None
    parsedAs,    \* format |-> outcome of parsing record_in's document in it
    fragment,    \* the last text handed to parse_business_from_text
    parsed,      \* its outcome: [raised, businesses]
    request,     \* the arguments of the last search_businesses_vectorized
    retrieved,   \* the items the retrieval backend answered with
    out,         \* what the search computed (locals and return value)
    prev,        \* the outcome of the same request on the previous order
    rated,       \* the last call of calculate_implicit_rating and its value
    store,       \* the key-value store: logs, counters, preferences, cache
    now,         \* the clock, in minutes
    cf,          \* the CollaborativeFilteringEngine: which module, enabled
    call,        \* the last call made on the engine and how it ended
    asked        \* what was recorded so far: per user the queries, and who
                 \* interacted with which business when

vars ==
    <<record_in, parsedAs, fragment, parsed, request, retrieved, out, prev,
      rated, store, now, cf, call, asked>>

parseVars == <<record_in, parsedAs, fragment, parsed>>
searchVars == <<request, retrieved, out, prev>>
cfVars == <<rated, store, now, cf, call, asked>>

None == <<>>
Some(x) == <<x>>
IsNone(o) == o = <<>>
The(o) == o[1]

Abs(x) == IF x < 0 THEN -x ELSE x
Max2(a, b) == IF a >= b THEN a ELSE b
Min2(a, b) == IF a <= b THEN a ELSE b

RECURSIVE Flatten(_)
Flatten(ss) == IF ss = <<>> THEN <<>> ELSE Head(ss) \o Flatten(Tail(ss))

(***************************************************************************)
(* Strings.  TLC cannot look inside a string, so the strings on which the  *)
(* code does character work (lower(), `in`) are spelled out once here.     *)
(***************************************************************************)
Chars(s) ==
    CASE s = "" -> <<>>
      [] s = " " -> <<" ">>
      [] s = "coffee near me" -> <<"c","o","f","f","e","e"," ","n","e","a","r"," ","m","e">>
      [] s = "Nearby cafes" -> <<"N","e","a","r","b","y"," ","c","a","f","e","s">>
      [] s = "closest bakery" -> <<"c","l","o","s","e","s","t"," ","b","a","k","e","r","y">>
      [] s = "food around me" -> <<"f","o","o","d"," ","a","r","o","u","n","d"," ","m","e">>
      [] s = "near park" -> <<"n","e","a","r"," ","p","a","r","k">>
      [] s = "linear" -> <<"l","i","n","e","a","r">>
      [] s = "coffee" -> <<"c","o","f","f","e","e">>
      [] s = "Coffee" -> <<"C","o","f","f","e","e">>
      [] s = "coffee shop" -> <<"c","o","f","f","e","e"," ","s","h","o","p">>
      [] s = "bakery" -> <<"b","a","k","e","r","y">>
      [] s = "closed" -> <<"c","l","o","s","e","d">>
      [] s = "wifi" -> <<"w","i","f","i">>
      [] s = "bread" -> <<"b","r","e","a","d">>
      [] s = "near me" -> <<"n","e","a","r"," ","m","e">>
      [] s = "nearby" -> <<"n","e","a","r","b","y">>
      [] s = "closest" -> <<"c","l","o","s","e","s","t">>
      [] s = "around me" -> <<"a","r","o","u","n","d"," ","m","e">>
      [] s = "near " -> <<"n","e","a","r"," ">>
      \* the categories of src/contextual_recommendations.py and of
      \* get_weather_business_suggestions, and the texts of the businesses they
      \* are matched with
      [] s = "24hr service" -> <<"2","4","h","r"," ","s","e","r","v","i","c","e">>
      [] s = "air conditioned restaurant" ->
             <<"a","i","r"," ","c","o","n","d","i","t","i","o","n","e","d"," ","r","e","s",
               "t","a","u","r","a","n","t">>
      [] s = "air conditioning" ->
             <<"a","i","r"," ","c","o","n","d","i","t","i","o","n","i","n","g">>
      [] s = "aquarium" -> <<"a","q","u","a","r","i","u","m">>
      [] s = "arcade" -> <<"a","r","c","a","d","e">>
      [] s = "bar" -> <<"b","a","r">>
      [] s = "beach" -> <<"b","e","a","c","h">>
      [] s = "beach accessories" ->
             <<"b","e","a","c","h"," ","a","c","c","e","s","s","o","r","i","e","s">>
      [] s = "beach activities" ->
             <<"b","e","a","c","h"," ","a","c","t","i","v","i","t","i","e","s">>
      [] s = "bookstore" -> <<"b","o","o","k","s","t","o","r","e">>
      [] s = "breakfast restaurant" ->
             <<"b","r","e","a","k","f","a","s","t"," ","r","e","s","t","a","u","r","a","n",
               "t">>
      [] s = "brunch restaurant" ->
             <<"b","r","u","n","c","h"," ","r","e","s","t","a","u","r","a","n","t">>
      [] s = "business services" ->
             <<"b","u","s","i","n","e","s","s"," ","s","e","r","v","i","c","e","s">>
      [] s = "cafe" -> <<"c","a","f","e">>
      [] s = "cafe with covered seating" ->
             <<"c","a","f","e"," ","w","i","t","h"," ","c","o","v","e","r","e","d"," ","s",
               "e","a","t","i","n","g">>
      [] s = "cinema" -> <<"c","i","n","e","m","a">>
      [] s = "cold drinks" -> <<"c","o","l","d"," ","d","r","i","n","k","s">>
      [] s = "cold food" -> <<"c","o","l","d"," ","f","o","o","d">>
      [] s = "convenience store" ->
             <<"c","o","n","v","e","n","i","e","n","c","e"," ","s","t","o","r","e">>
      [] s = "covered" -> <<"c","o","v","e","r","e","d">>
      [] s = "covered parking" ->
             <<"c","o","v","e","r","e","d"," ","p","a","r","k","i","n","g">>
      [] s = "cozy cafes" -> <<"c","o","z","y"," ","c","a","f","e","s">>
      [] s = "dinner restaurant" ->
             <<"d","i","n","n","e","r"," ","r","e","s","t","a","u","r","a","n","t">>
      [] s = "driving tours" -> <<"d","r","i","v","i","n","g"," ","t","o","u","r","s">>
      [] s = "entertainment" -> <<"e","n","t","e","r","t","a","i","n","m","e","n","t">>
      [] s = "family entertainment" ->
             <<"f","a","m","i","l","y"," ","e","n","t","e","r","t","a","i","n","m","e","n",
               "t">>
      [] s = "farmers market" -> <<"f","a","r","m","e","r","s"," ","m","a","r","k","e","t">>
      [] s = "fast food" -> <<"f","a","s","t"," ","f","o","o","d">>
      [] s = "frozen yogurt" -> <<"f","r","o","z","e","n"," ","y","o","g","u","r","t">>
      [] s = "golf course" -> <<"g","o","l","f"," ","c","o","u","r","s","e">>
      [] s = "grocery store" -> <<"g","r","o","c","e","r","y"," ","s","t","o","r","e">>
      [] s = "gym" -> <<"g","y","m">>
      [] s = "happy hour" -> <<"h","a","p","p","y"," ","h","o","u","r">>
      [] s = "hardware" -> <<"h","a","r","d","w","a","r","e">>
      [] s = "heated" -> <<"h","e","a","t","e","d">>
      [] s = "heated venues" -> <<"h","e","a","t","e","d"," ","v","e","n","u","e","s">>
      [] s = "heavy meals" -> <<"h","e","a","v","y"," ","m","e","a","l","s">>
      [] s = "hiking" -> <<"h","i","k","i","n","g">>
      [] s = "hiking trails" -> <<"h","i","k","i","n","g"," ","t","r","a","i","l","s">>
      [] s = "hot chocolate" -> <<"h","o","t"," ","c","h","o","c","o","l","a","t","e">>
      [] s = "hot food" -> <<"h","o","t"," ","f","o","o","d">>
      [] s = "ice cream" -> <<"i","c","e"," ","c","r","e","a","m">>
      [] s = "ice cream shop" -> <<"i","c","e"," ","c","r","e","a","m"," ","s","h","o","p">>
      [] s = "indoor" -> <<"i","n","d","o","o","r">>
      [] s = "indoor activities" ->
             <<"i","n","d","o","o","r"," ","a","c","t","i","v","i","t","i","e","s">>
      [] s = "indoor cafe" -> <<"i","n","d","o","o","r"," ","c","a","f","e">>
      [] s = "indoor dining" -> <<"i","n","d","o","o","r"," ","d","i","n","i","n","g">>
      [] s = "indoor entertainment" ->
             <<"i","n","d","o","o","r"," ","e","n","t","e","r","t","a","i","n","m","e","n",
               "t">>
      [] s = "indoor mall" -> <<"i","n","d","o","o","r"," ","m","a","l","l">>
      [] s = "indoor markets" -> <<"i","n","d","o","o","r"," ","m","a","r","k","e","t","s">>
      [] s = "indoor restaurant" ->
             <<"i","n","d","o","o","r"," ","r","e","s","t","a","u","r","a","n","t">>
      [] s = "indoor sports" -> <<"i","n","d","o","o","r"," ","s","p","o","r","t","s">>
      [] s = "indoor venues" -> <<"i","n","d","o","o","r"," ","v","e","n","u","e","s">>
      [] s = "late night food" ->
             <<"l","a","t","e"," ","n","i","g","h","t"," ","f","o","o","d">>
      [] s = "library" -> <<"l","i","b","r","a","r","y">>
      [] s = "lunch" -> <<"l","u","n","c","h">>
      [] s = "lunch specials" -> <<"l","u","n","c","h"," ","s","p","e","c","i","a","l","s">>
      [] s = "mall" -> <<"m","a","l","l">>
      [] s = "movie theater" -> <<"m","o","v","i","e"," ","t","h","e","a","t","e","r">>
      [] s = "museum" -> <<"m","u","s","e","u","m">>
      [] s = "nightclub" -> <<"n","i","g","h","t","c","l","u","b">>
      [] s = "non-AC venues" -> <<"n","o","n","-","A","C"," ","v","e","n","u","e","s">>
      [] s = "office supply" -> <<"o","f","f","i","c","e"," ","s","u","p","p","l","y">>
      [] s = "outdoor cafe" -> <<"o","u","t","d","o","o","r"," ","c","a","f","e">>
      [] s = "outdoor concerts" ->
             <<"o","u","t","d","o","o","r"," ","c","o","n","c","e","r","t","s">>
      [] s = "outdoor dining" -> <<"o","u","t","d","o","o","r"," ","d","i","n","i","n","g">>
      [] s = "outdoor events" -> <<"o","u","t","d","o","o","r"," ","e","v","e","n","t","s">>
      [] s = "outdoor festivals" ->
             <<"o","u","t","d","o","o","r"," ","f","e","s","t","i","v","a","l","s">>
      [] s = "outdoor gear" -> <<"o","u","t","d","o","o","r"," ","g","e","a","r">>
      [] s = "outdoor market" -> <<"o","u","t","d","o","o","r"," ","m","a","r","k","e","t">>
      [] s = "outdoor markets" ->
             <<"o","u","t","d","o","o","r"," ","m","a","r","k","e","t","s">>
      [] s = "outdoor photography" ->
             <<"o","u","t","d","o","o","r"," ","p","h","o","t","o","g","r","a","p","h","y">>
      [] s = "outdoor seating" ->
             <<"o","u","t","d","o","o","r"," ","s","e","a","t","i","n","g">>
      [] s = "outdoor sports" -> <<"o","u","t","d","o","o","r"," ","s","p","o","r","t","s">>
      [] s = "outdoor sports during midday" ->
             <<"o","u","t","d","o","o","r"," ","s","p","o","r","t","s"," ","d","u","r","i",
               "n","g"," ","m","i","d","d","a","y">>
      [] s = "park" -> <<"p","a","r","k">>
      [] s = "parking" -> <<"p","a","r","k","i","n","g">>
      [] s = "picnic areas" -> <<"p","i","c","n","i","c"," ","a","r","e","a","s">>
      [] s = "pool" -> <<"p","o","o","l">>
      [] s = "recreational" -> <<"r","e","c","r","e","a","t","i","o","n","a","l">>
      [] s = "recreational activities" ->
             <<"r","e","c","r","e","a","t","i","o","n","a","l"," ","a","c","t","i","v","i",
               "t","i","e","s">>
      [] s = "restaurant" -> <<"r","e","s","t","a","u","r","a","n","t">>
      [] s = "retail" -> <<"r","e","t","a","i","l">>
      [] s = "sauna" -> <<"s","a","u","n","a">>
      [] s = "scenic viewpoints" ->
             <<"s","c","e","n","i","c"," ","v","i","e","w","p","o","i","n","t","s">>
      [] s = "services" -> <<"s","e","r","v","i","c","e","s">>
      [] s = "shopping" -> <<"s","h","o","p","p","i","n","g">>
      [] s = "shopping mall" -> <<"s","h","o","p","p","i","n","g"," ","m","a","l","l">>
      [] s = "ski shop" -> <<"s","k","i"," ","s","h","o","p">>
      [] s = "soup restaurant" ->
             <<"s","o","u","p"," ","r","e","s","t","a","u","r","a","n","t">>
      [] s = "spa" -> <<"s","p","a">>
      [] s = "sports venue" -> <<"s","p","o","r","t","s"," ","v","e","n","u","e">>
      [] s = "sunglasses shop" ->
             <<"s","u","n","g","l","a","s","s","e","s"," ","s","h","o","p">>
      [] s = "sunscreen" -> <<"s","u","n","s","c","r","e","e","n">>
      [] s = "swimming" -> <<"s","w","i","m","m","i","n","g">>
      [] s = "walking trails" -> <<"w","a","l","k","i","n","g"," ","t","r","a","i","l","s">>
      [] s = "warm clothing" -> <<"w","a","r","m"," ","c","l","o","t","h","i","n","g">>
      [] s = "warm clothing store" ->
             <<"w","a","r","m"," ","c","l","o","t","h","i","n","g"," ","s","t","o","r","e">>
      [] s = "warm food" -> <<"w","a","r","m"," ","f","o","o","d">>
      [] s = "warm restaurant" ->
             <<"w","a","r","m"," ","r","e","s","t","a","u","r","a","n","t">>
      [] s = "water activities" ->
             <<"w","a","t","e","r"," ","a","c","t","i","v","i","t","i","e","s">>
      [] s = "water park" -> <<"w","a","t","e","r"," ","p","a","r","k">>
      [] s = "water sports" -> <<"w","a","t","e","r"," ","s","p","o","r","t","s">>
      [] s = "winter sports" -> <<"w","i","n","t","e","r"," ","s","p","o","r","t","s">>

\* str.lower(), character by character
LowerChar(c) ==
    CASE c = "N" -> "n"
      [] c = "C" -> "c"
      [] c = "A" -> "a"
      [] OTHER -> c

Lower(cs) == [i \in 1..Len(cs) |-> LowerChar(cs[i])]

\* needle in hay, on character sequences
Contains(hay, needle) ==
    \E i \in 0..(Len(hay) - Len(needle)) :
        \A j \in 1..Len(needle) : hay[i + j] = needle[j]

\* the characters of a Text: its pieces joined by ","
RECURSIVE TextChars(_)
TextChars(t) ==
    IF Len(t) = 1 THEN Chars(t[1])
    ELSE Chars(t[1]) \o <<",">> \o TextChars(Tail(t))

\* str.strip() and str.strip('"') on one comma-free piece
StripAtom(a) == IF a = " " THEN "" ELSE a
StripQuotes(a) == IF a = "\"coffee shop\"" THEN "coffee shop" ELSE a

\* str.strip() on a Text: only its two ends can lose whitespace
Strip(t) ==
    [i \in 1..Len(t) |-> IF i = 1 \/ i = Len(t) THEN StripAtom(t[i]) ELSE t[i]]

Empty == <<"">>
Truthy(t) == t # Empty

(***************************************************************************)
(* float(s) and f"{x}".  A numeral is valid text for float(); Repr gives   *)
(* the text Python prints for the float, which is not always the text it   *)
(* was read from ("500" reads as 500.0 and prints as "500.0").             *)
(***************************************************************************)
Numerals ==
    { <<"0.0", 0>>, <<"500.0", 500>>, <<"500", 500>>, <<"5000.0", 5000>>,
      <<"9996.0", 9996>>, <<"10004.0", 10004>>, <<"10004000.0", 10004000>>,
      <<"10100000.0", 10100000>>, <<"20100000.0", 20100000>> }

IsNumeral(a) == \E p \in Numerals : p[1] = a
\* float(a): None stands for ValueError
ToFloat(a) ==
    IF IsNumeral(a) THEN Some((CHOOSE p \in Numerals : p[1] = a)[2]) ELSE None

Repr(x) ==
    CASE x = 0 -> "0.0"
      [] x = 500 -> "500.0"
      [] x = 5000 -> "5000.0"
      [] x = 9996 -> "9996.0"
      [] x = 10004 -> "10004.0"
      [] x = 10004000 -> "10004000.0"
      [] x = 10100000 -> "10100000.0"
      [] x = 20100000 -> "20100000.0"

(***************************************************************************)
(* utils.py: coordinates                                                   *)
(***************************************************************************)
\* 90 and 180 degrees, in metres of arc (6371 km * pi / 2, 6371 km * pi)
LatMax == 10007543
LngMax == 20015087

\* a mutant for validate_coordinates: the latitude is checked against the
\* longitude's range
validate_coordinates_lat180(lat, lng) ==
    -LngMax <= lat /\ lat <= LngMax /\ -LngMax <= lng /\ lng <= LngMax

validate_coordinates(lat, lng) ==
    -LatMax <= lat /\ lat <= LatMax /\ -LngMax <= lng /\ lng <= LngMax

\* float() of a whole string (surrounding whitespace is ignored by float)
FloatOfText(t) == IF Len(t) = 1 THEN ToFloat(StripAtom(t[1])) ELSE None

\* parse_lat_lng: "lat,lng" -> Some(<<lat, lng>>), None when it does not parse
\* two floats, when both conversions succeeded
PairOf(a, b) == IF IsNone(a) \/ IsNone(b) THEN None ELSE Some(<<The(a), The(b)>>)

parse_lat_lng(t) ==
    IF Len(t) = 2
    THEN PairOf(ToFloat(StripAtom(t[1])), ToFloat(StripAtom(t[2])))
    ELSE None

\* calculate_distance, in metres, for two points of one meridian
calculate_distance(lat1, lng1, lat2, lng2) == Abs(lat2 - lat1)

(***************************************************************************)
(* JSON values, as json.loads returns them                                 *)
(***************************************************************************)
JStr(t) == [t |-> "str", s |-> t, n |-> 0]
JNum(x) == [t |-> "num", s |-> <<>>, n |-> x]
JNull == [t |-> "null", s |-> <<>>, n |-> 0]
JList(items) == [t |-> "list", s |-> items, n |-> 0]

\* Python truthiness
JTruthy(v) ==
    CASE v.t = "str" -> v.s # Empty
      [] v.t = "num" -> v.n # 0
      [] v.t = "list" -> v.s # <<>>
      [] OTHER -> FALSE

\* a or b
PyOr(a, b) == IF JTruthy(a) THEN a ELSE b

\* dict.get(k), None when the key is absent
Get(item, k) == IF k \in DOMAIN item THEN item[k] ELSE JNull

(***************************************************************************)
(* The canonical record parse_business_from_text appends                   *)
(***************************************************************************)
Business(name, business_name, lat, lon, category, tags) ==
    [name |-> name,
     business_name |-> business_name,
     latitude |-> lat,
     longitude |-> lon,
     lat_long |-> <<Repr(lat), Repr(lon)>>,
     business_category |-> category,
     business_tags |-> tags]

Raised == [raised |-> TRUE, businesses |-> <<>>]
Returned(bs) == [raised |-> FALSE, businesses |-> bs]

(***************************************************************************)
(* parse_business_from_text, path 0: JSON                                  *)
(***************************************************************************)
\* float(v) inside the try of lines 282-288: None stands for "raised"
JFloat(v) ==
    CASE v.t = "num" -> Some(v.n)
      [] v.t = "str" -> FloatOfText(v.s)
      [] OTHER -> None

\* lines 282-288: float() of what is not None; one failure clears both
JsonFloats(lat, lon) ==
    IF lat = JNull \/ lon = JNull THEN None ELSE PairOf(JFloat(lat), JFloat(lon))

\* lines 278-281: lat_long is consulted only when a coordinate is missing
JsonCoordsFrom(lat0, lon0, coords) ==
    IF IsNone(coords) THEN JsonFloats(lat0, lon0) ELSE coords

JsonLatLong(lat0, lon0, lat_long) ==
    IF (lat0 = JNull \/ lon0 = JNull) /\ JTruthy(lat_long) /\ lat_long.t = "str"
    THEN parse_lat_lng(lat_long.s) ELSE None

\* the coordinates of one JSON item: Some(<<lat, lon>>) or None
JsonCoords(item) ==
    JsonCoordsFrom(Get(item, "latitude"), Get(item, "longitude"),
                   JsonLatLong(Get(item, "latitude"), Get(item, "longitude"),
                               PyOr(Get(item, "lat_long"), JStr(Empty))))

\* (a or b or ""): the value .strip() is then called on
OrChain(item, k1, k2) == PyOr(PyOr(Get(item, k1), Get(item, k2)), JStr(Empty))

\* .strip() exists on str only: anything else is an AttributeError, which the
\* `except json.JSONDecodeError` of line 303 does not catch
StripRaises(item) ==
    \/ OrChain(item, "business_name", "business").t # "str"
    \/ OrChain(item, "name", "owner_name").t # "str"
    \/ OrChain(item, "business_category", "category").t # "str"

\* the test of lines 290 and 336, and the record appended when it passes
RecordIfValid(name, business_name, category, tags, c) ==
    IF Truthy(business_name) /\ Truthy(category) /\ ~IsNone(c)
       /\ validate_coordinates(The(c)[1], The(c)[2])
    THEN <<Business(name, business_name, The(c)[1], The(c)[2], category, tags)>>
    ELSE <<>>

\* lines 270-299 for one item that does not raise: <<record>> or <<>>
JsonItemRecords(item) ==
    RecordIfValid(Strip(OrChain(item, "name", "owner_name").s),
                  Strip(OrChain(item, "business_name", "business").s),
                  Strip(OrChain(item, "business_category", "category").s),
                  OrChain(item, "business_tags", "tags"),
                  JsonCoords(item))

\* the loop of line 269: the first raising item ends the whole call
RECURSIVE ParseJsonItems(_, _)
ParseJsonItems(items, acc) ==
    IF items = <<>> THEN Returned(acc)
    ELSE IF StripRaises(Head(items)) THEN Raised
    ELSE ParseJsonItems(Tail(items), acc \o JsonItemRecords(Head(items)))

(***************************************************************************)
(* parse_business_from_text, path 1: key:value block                       *)
(* A line of text is [key, val]: key is Some(k) when the line holds a ":"  *)
(* (k the text before the first one), val the Text after it (the whole     *)
(* line when there is no ":").                                             *)
(***************************************************************************)
Line(key, val) == [key |-> key, val |-> val]

\* k.strip().lower().replace(" ", "_")
NormKey(k) ==
    CASE k = "Business Name" -> "business_name"
      [] k = "Owner Name" -> "owner_name"
      [] OTHER -> k

\* line.strip() is empty
BlankLine(l) == IsNone(l.key) /\ Strip(l.val) = Empty

\* kv.get(k): the last line with that key wins
RECURSIVE KvGet(_, _)
KvGet(lines, k) ==
    IF lines = <<>> THEN None
    ELSE LET l == lines[Len(lines)] IN
         IF ~IsNone(l.key) /\ NormKey(The(l.key)) = k
         THEN Some(Strip(l.val))
         ELSE KvGet(SubSeq(lines, 1, Len(lines) - 1), k)

OrDefault(o, default) == IF IsNone(o) THEN default ELSE The(o)

KvGetOr(lines, k, default) == OrDefault(KvGet(lines, k), default)

\* "k:" in raw, for the keys as they are written in the text
RawHasKey(lines, k) == \E i \in 1..Len(lines) : lines[i].key = Some(k)

\* lines 324-330: both strings present and both convertible
KvDirect(lat_str, lon_str) ==
    IF Truthy(lat_str) /\ Truthy(lon_str)
    THEN PairOf(FloatOfText(lat_str), FloatOfText(lon_str)) ELSE None

\* lines 331-334
KvCoordsFrom(direct, lat_long) ==
    IF IsNone(direct) /\ Truthy(lat_long) THEN parse_lat_lng(lat_long) ELSE direct

KvCoords(lines) ==
    KvCoordsFrom(KvDirect(KvGetOr(lines, "latitude", Empty),
                          KvGetOr(lines, "longitude", Empty)),
                 KvGetOr(lines, "lat_long", Empty))

\* lines 307-346: <<record>>, or <<>> when the block is not taken
ParseKv(lines) ==
    IF ~(RawHasKey(lines, "business_name") /\ RawHasKey(lines, "business_category"))
    THEN <<>>
    ELSE RecordIfValid(KvGetOr(lines, "owner_name", Empty),
                       KvGetOr(lines, "business_name", Empty),
                       KvGetOr(lines, "business_category", Empty),
                       JStr(KvGetOr(lines, "business_tags", Empty)),
                       KvCoords(lines))

(***************************************************************************)
(* parse_business_from_text, path 2: comma-delimited rows                  *)
(***************************************************************************)
\* line.split(','), each part .strip().strip('"')
RawParts(l) ==
    IF IsNone(l.key) THEN l.val
    ELSE <<The(l.key) \o ":" \o l.val[1]>> \o Tail(l.val)

Parts(l) == [i \in 1..Len(l.val) |-> StripQuotes(StripAtom(RawParts(l)[i]))]

\* "name,business_name,lat_long" in line.lower()
IsHeader(parts) ==
    \E i \in 1..(Len(parts) - 2) :
        parts[i] = "name" /\ parts[i + 1] = "business_name" /\ parts[i + 2] = "lat_long"

\* lines 363-380: the six-column row
CsvRow(name, business_name, lat, lon, category, tags) ==
    IF name = "" \/ business_name = "" \/ category = "" THEN <<>>
    ELSE IF IsNone(lat) \/ IsNone(lon) THEN <<>>
    ELSE IF ~validate_coordinates(The(lat), The(lon)) THEN <<>>
    ELSE <<Business(<<name>>, <<business_name>>, The(lat), The(lon), <<category>>,
                    JStr(<<tags>>))>>

\* lines 381-401: the five-column row, whose third part is handed to
\* parse_lat_lng as it is
CsvRow5(name, business_name, coords, category, tags) ==
    IF name = "" \/ business_name = "" \/ category = "" \/ IsNone(coords) THEN <<>>
    ELSE IF ~validate_coordinates(The(coords)[1], The(coords)[2]) THEN <<>>
    ELSE <<Business(<<name>>, <<business_name>>, The(coords)[1], The(coords)[2],
                    <<category>>, JStr(<<tags>>))>>

CsvParts(parts) ==
    IF IsHeader(parts) THEN <<>>
    ELSE IF Len(parts) >= 6
    THEN CsvRow(parts[1], parts[2], ToFloat(parts[3]), ToFloat(parts[4]),
                parts[5], parts[6])
    ELSE IF Len(parts) >= 5
    THEN CsvRow5(parts[1], parts[2], parse_lat_lng(<<parts[3]>>), parts[4], parts[5])
    ELSE <<>>

\* lines 350-401 for one line: <<record>> or <<>>
CsvLineRecords(l) == IF BlankLine(l) THEN <<>> ELSE CsvParts(Parts(l))

ParseCsv(lines) == Flatten([i \in 1..Len(lines) |-> CsvLineRecords(lines[i])])

(***************************************************************************)
(* parse_business_from_text                                                *)
(* A fragment is JSON text (an object, or an array of objects: `items`) or *)
(* other text (`lines`).  JSON text that yields no record falls through to *)
(* the text paths, where it yields none either: no line of an object holds *)
(* "business_name:" (a quote precedes the colon), and every comma-separated*)
(* part of one is a "key": value pair, never a number.                     *)
(***************************************************************************)
JsonFragment(items) == [kind |-> "json", items |-> items, lines |-> <<>>]
TextFragment(lines) == [kind |-> "text", items |-> <<>>, lines |-> lines]

\* line 346 returns the key:value record; otherwise the rows are tried
KvElseCsv(kv, lines) == IF kv # <<>> THEN Returned(kv) ELSE Returned(ParseCsv(lines))

parse_business_from_text(text) ==
    IF text.kind = "json"
    THEN ParseJsonItems(text.items, <<>>)
    ELSE IF \A i \in 1..Len(text.lines) : BlankLine(text.lines[i])
    THEN Returned(<<>>)
    ELSE KvElseCsv(ParseKv(text.lines), text.lines)

(***************************************************************************)
(* The documents of a registered business.  A DataRecord holds five        *)
(* strings; business_tags is documented as "Comma-separated business tags".*)
(***************************************************************************)
DataRecord(name, business_name, lat_long, category, tags) ==
    [name |-> name, business_name |-> business_name, lat_long |-> lat_long,
     business_category |-> category, business_tags |-> tags]

\* write_business_file: the per-business .json document
BusinessFile(record, coords) ==
    JsonFragment(<<
        [name |-> JStr(record.name),
         owner_name |-> JStr(record.name),
         business_name |-> JStr(record.business_name),
         business_category |-> JStr(record.business_category),
         business_tags |-> JStr(record.business_tags),
         latitude |-> IF IsNone(coords) THEN JNull ELSE JNum(The(coords)[1]),
         longitude |-> IF IsNone(coords) THEN JNull ELSE JNum(The(coords)[2]),
         lat_long |-> JStr(record.lat_long)] >>)

write_business_file(record) == BusinessFile(record, parse_lat_lng(record.lat_long))

\* append_rows: the row of the normalised TXT mirror,
\* f"{name},{business_name},{lat},{lon},{category},{tags}", written only
\* when lat_long parses
MirrorRow(record, coords) ==
    IF IsNone(coords) THEN TextFragment(<<>>)
    ELSE TextFragment(<< Line(None,
            record.name \o record.business_name
            \o <<Repr(The(coords)[1]), Repr(The(coords)[2])>>
            \o record.business_category \o record.business_tags) >>)

TxtMirrorRow(record) == MirrorRow(record, parse_lat_lng(record.lat_long))

\* the per-business key:value block, with the keys the readers look up
KvLines(record, coords) ==
    TextFragment(
        << Line(Some("owner_name"), record.name),
           Line(Some("business_name"), record.business_name),
           Line(Some("business_category"), record.business_category),
           Line(Some("business_tags"), record.business_tags) >>
        \o (IF IsNone(coords) THEN <<>>
            ELSE << Line(Some("latitude"), <<Repr(The(coords)[1])>>),
                    Line(Some("longitude"), <<Repr(The(coords)[2])>>) >>)
        \o << Line(Some("lat_long"), record.lat_long) >>)

KvBlock(record) == KvLines(record, parse_lat_lng(record.lat_long))

Formats == {"json", "kv", "csv"}

Render(fmt, record) ==
    CASE fmt = "json" -> write_business_file(record)
      [] fmt = "kv" -> KvBlock(record)
      [] fmt = "csv" -> TxtMirrorRow(record)

(***************************************************************************)
(* Inputs of Part I                                                        *)
(***************************************************************************)
DataRecords ==
    { DataRecord(n, b, ll, c, t) :
        n \in {<<"Bob">>, <<"">>},
        b \in {<<"Cafe">>, <<"">>},
        ll \in {<<"500.0", "0.0">>, <<"500", "0.0">>, <<"10100000.0", "0.0">>,
                <<"0.0", "20100000.0">>, <<"north">>},
        c \in {<<"coffee shop">>, <<" ">>},
        t \in {<<"">>, <<"coffee">>, <<"coffee", "wifi">>} }

\* text the retrieval backend may hold that no writer of this program made
OddFragments ==
    { \* a JSON object whose category is a number
      JsonFragment(<< [business_name |-> JStr(<<"Cafe">>),
                       business_category |-> JNum(5),
                       latitude |-> JNum(500), longitude |-> JNum(0)] >>),
      \* tags as a JSON array, coordinates as strings
      JsonFragment(<< [business |-> JStr(<<"Cafe">>), owner_name |-> JStr(<<"Bob">>),
                       category |-> JStr(<<"coffee shop">>),
                       tags |-> JList(<<"coffee", "wifi">>),
                       latitude |-> JStr(<<"500">>), longitude |-> JStr(<<"0.0">>)] >>),
      \* coordinates that are not numbers; coordinates out of range
      JsonFragment(<< [business_name |-> JStr(<<"Cafe">>),
                       business_category |-> JStr(<<"coffee shop">>),
                       latitude |-> JStr(<<"north">>), longitude |-> JNum(0)] >>),
      JsonFragment(<< [business_name |-> JStr(<<"Cafe">>),
                       business_category |-> JStr(<<"coffee shop">>),
                       latitude |-> JNum(10100000), longitude |-> JNum(0)] >>),
      \* an array: a good item, one whose category is blank, one without a name
      JsonFragment(<< [business_name |-> JStr(<<"Bakery">>),
                       business_category |-> JStr(<<"bakery">>),
                       lat_long |-> JStr(<<"5000.0", "0.0">>)],
                      [business_name |-> JStr(<<"Cafe">>),
                       business_category |-> JStr(<<" ">>),
                       latitude |-> JNum(500), longitude |-> JNum(0)],
                      [name |-> JStr(<<"Bob">>),
                       business_category |-> JStr(<<"coffee shop">>),
                       latitude |-> JNum(500), longitude |-> JNum(0)] >>),
      JsonFragment(<<>>),
      \* key:value text whose keys are capitalised, or lack a category
      TextFragment(<< Line(Some("Business Name"), <<"Cafe">>),
                      Line(Some("business_category"), <<"coffee shop">>),
                      Line(Some("lat_long"), <<"500.0", "0.0">>) >>),
      TextFragment(<< Line(Some("business_name"), <<"Cafe">>),
                      Line(Some("business_category"), <<"">>),
                      Line(Some("latitude"), <<"500.0">>),
                      Line(Some("longitude"), <<"0.0">>) >>),
      TextFragment(<< Line(Some("business_name"), <<"Cafe">>),
                      Line(Some("business_category"), <<"coffee shop">>),
                      Line(Some("latitude"), <<"10100000.0">>),
                      Line(Some("longitude"), <<"0.0">>) >>),
      \* rows: the CSV header, a quoted category, a blank category, bad numbers,
      \* the five-column layout, a blank line
      TextFragment(<< Line(None, <<"name", "business_name", "lat_long",
                                   "business_category", "business_tags">>),
                      Line(None, <<"Bob", "Cafe", "500.0", "0.0",
                                   "\"coffee shop\"", "coffee">>),
                      Line(None, <<" ">>),
                      Line(None, <<"Ann", "Bakery", "5000.0", "0.0", "bakery", "bread">>),
                      Line(None, <<"Ann", "Bakery", "5000.0", "0.0", " ", "bread">>),
                      Line(None, <<"Ann", "Bakery", "north", "0.0", "bakery", "bread">>),
                      Line(None, <<"Ann", "Bakery", "0.0", "20100000.0", "bakery",
                                   "bread">>) >>),
      TextFragment(<< Line(None, <<"Ann", "Bakery", "5000.0", "bakery", "bread">>) >>),
      TextFragment(<< Line(None, <<" ">>) >>) }

(***************************************************************************)
(* Part I as a state machine                                               *)
(***************************************************************************)
\* nothing registered, parsed or searched yet
Init ==
    /\ record_in = None
    /\ parsedAs = [f \in Formats |-> None]
    /\ fragment = None
    /\ parsed = None
    /\ request = None
    /\ retrieved = None
    /\ out = None
    /\ prev = None
    /\ rated = None
    /\ store = None
    /\ now = 0
    /\ cf = None
    /\ call = None
    /\ asked = None

\* a business is registered: its documents exist from now on
Register(r) ==
    /\ record_in = None
    /\ record_in' = Some(r)
    /\ UNCHANGED <<parsedAs, fragment, parsed>>
    /\ UNCHANGED searchVars
    /\ UNCHANGED cfVars

\* the document of the registered business in one format is parsed
ParseStored(fmt) ==
    /\ ~IsNone(record_in)
    /\ IsNone(parsedAs[fmt])
    /\ fragment' = Some(Render(fmt, The(record_in)))
    /\ parsed' = Some(parse_business_from_text(The(fragment')))
    /\ parsedAs' = [parsedAs EXCEPT ![fmt] = parsed']
    /\ UNCHANGED record_in
    /\ UNCHANGED searchVars
    /\ UNCHANGED cfVars

\* any other retrieved text is parsed
ParseOdd(f) ==
    /\ fragment' = Some(f)
    /\ parsed' = Some(parse_business_from_text(f))
    /\ UNCHANGED <<record_in, parsedAs>>
    /\ UNCHANGED searchVars
    /\ UNCHANGED cfVars

ParseNext ==
    \/ \E r \in DataRecords : Register(r)
    \/ \E fmt \in Formats : ParseStored(fmt)
    \/ \E f \in OddFragments : ParseOdd(f)

SpecParse == Init /\ [][ParseNext]_vars

(***************************************************************************)
(* Part II: search_businesses_vectorized                                   *)
(*                                                                         *)
(* The sort key is a float in the code; here it is the exact rational      *)
(*   rel_w * vector_score + dist_w * distance_km / divisor                 *)
(* scaled by 100 * divisor (the same factor for every record of one call), *)
(* so that keys are compared as integers.                                  *)
(***************************************************************************)
\* 10,000 km, in hundredths of a km: "10,000km+ is considered unlimited"
UnlimitedKm == 1000000
\* 1 km, in hundredths of a km: the least divisor of the normalisation
OneKm == 100

\* round(distance, 2): metres to hundredths of a km, ties to even
Round2(metres) ==
    LET q == metres \div 10
        r == metres % 10
    IN  IF r > 5 \/ (r = 5 /\ q % 2 = 1) THEN q + 1 ELSE q

\* the request of one call
SearchRequest(query, user_lat, max_distance_km, category_filter, tag_filters, limit, distance_weight, sort_mode) ==
    [query |-> query, user_lat |-> user_lat, user_lng |-> 0,
     max_distance_km |-> max_distance_km, category_filter |-> category_filter,
     tag_filters |-> tag_filters, limit |-> limit,
     distance_weight |-> distance_weight, sort_mode |-> sort_mode]

\* one element of the retrieve response
Item(text, dist, path) == [text |-> text, dist |-> dist, path |-> path]

\* Step 2 for one item: its parsed businesses, each with the item's score
WithScore(bs, item) ==
    [i \in 1..Len(bs) |->
        [name |-> bs[i].name,
         business_name |-> bs[i].business_name,
         latitude |-> bs[i].latitude,
         longitude |-> bs[i].longitude,
         lat_long |-> bs[i].lat_long,
         business_category |-> bs[i].business_category,
         business_tags |-> bs[i].business_tags,
         vector_score |-> item.dist,
         source_path |-> item.path]]

Scored(item) == WithScore(parse_business_from_text(item.text).businesses, item)

ParseRaises(items) ==
    \E i \in 1..Len(items) : parse_business_from_text(items[i].text).raised

AllBusinesses(items) == Flatten([i \in 1..Len(items) |-> Scored(items[i])])

\* f"{business_name}_{lat_long}": lat_long is two floats printed with a comma
\* and holds no "_", so the key determines the pair and the pair the key
DedupKey(b) == <<b.business_name, b.lat_long>>

\* a mutant for DedupInsert: the later record always replaces the earlier
DedupInsert_KeepLast(unique, business) ==
    IF \E i \in 1..Len(unique) : DedupKey(unique[i]) = DedupKey(business)
    THEN [i \in 1..Len(unique) |->
            IF DedupKey(unique[i]) = DedupKey(business) THEN business ELSE unique[i]]
    ELSE Append(unique, business)

\* Step 3, one iteration: unique_businesses is a dict, which keeps its keys in
\* the order of their first insertion; a replaced value keeps its key's place
DedupInsert(unique, business) ==
    IF \E i \in 1..Len(unique) : DedupKey(unique[i]) = DedupKey(business)
    THEN [i \in 1..Len(unique) |->
            IF DedupKey(unique[i]) = DedupKey(business)
               /\ business.vector_score < unique[i].vector_score
            THEN business ELSE unique[i]]
    ELSE Append(unique, business)

RECURSIVE Dedup(_, _)
Dedup(all, unique) ==
    IF all = <<>> THEN unique
    ELSE Dedup(Tail(all), DedupInsert(unique, Head(all)))

\* Step 4: the distance is attached to every record
Located(req, b) ==
    [name |-> b.name,
     business_name |-> b.business_name,
     latitude |-> b.latitude,
     longitude |-> b.longitude,
     lat_long |-> b.lat_long,
     business_category |-> b.business_category,
     business_tags |-> b.business_tags,
     vector_score |-> b.vector_score,
     source_path |-> b.source_path,
     distance_km |-> Round2(calculate_distance(req.user_lat, req.user_lng,
                                               b.latitude, b.longitude))]

\* a mutant for WithinRadius: the rounded distance_km is compared
WithinRadius_Rounded(max_distance_km, distance) ==
    \/ max_distance_km >= UnlimitedKm
    \/ Round2(distance) <= max_distance_km

\* Step 4: the test of lines 494-497, on the distance before rounding
\* (metres against hundredths of a km)
WithinRadius(max_distance_km, distance) ==
    \/ max_distance_km >= UnlimitedKm
    \/ distance <= max_distance_km * 10

DistanceFiltered(req, located) ==
    LET Keep(b) == WithinRadius(req.max_distance_km,
                                calculate_distance(req.user_lat, req.user_lng,
                                                   b.latitude, b.longitude))
    IN  SelectSeq(located, Keep)

\* Step 5: category_filter.lower() in business_category.lower()
CategoryFiltered(req, bs) ==
    IF IsNone(req.category_filter) \/ The(req.category_filter) = "" THEN bs
    ELSE LET Keep(b) == Contains(Lower(TextChars(b.business_category)),
                                 Lower(Chars(The(req.category_filter))))
         IN  SelectSeq(bs, Keep)

TagFilterActive(req) == ~IsNone(req.tag_filters) /\ The(req.tag_filters) # <<>>

\* .lower() on business_tags that are not a str is an AttributeError
TagFilterRaises(req, bs) ==
    TagFilterActive(req) /\ \E i \in 1..Len(bs) : bs[i].business_tags.t # "str"

TagFiltered(req, bs) ==
    IF ~TagFilterActive(req) THEN bs
    ELSE LET tags == The(req.tag_filters)
             Keep(b) == \E i \in 1..Len(tags) :
                            Contains(Lower(TextChars(b.business_tags.s)),
                                     Lower(Chars(tags[i])))
         IN  SelectSeq(bs, Keep)

\* Step 6: the locality cues
near_cues == <<"near me", "nearby", "closest", "around me", "near ">>

auto_distance_bias(query) ==
    LET query_lower == IF IsNone(query) THEN <<>> ELSE Lower(Chars(The(query))) IN
    \E i \in 1..Len(near_cues) : Contains(query_lower, Chars(near_cues[i]))

Weights(rel_w, dist_w) == [rel_w |-> rel_w, dist_w |-> dist_w]

\* A float of a request is a number of tenths or NaN, which a JSON body may
\* carry (json.loads reads the literal NaN, and the field distance_weight
\* of LocationSearchRequest has no bounds).  NaN is a value no number of
\* the model takes.  Every comparison with NaN is false and arithmetic with
\* NaN gives NaN; min(a, b) is b when b < a and else a, max(a, b) is b when
\* b > a and else a.
NaN == -1000000
PyLess(a, b) == a # NaN /\ b # NaN /\ a < b
PyMin(a, b) == IF PyLess(b, a) THEN b ELSE a
PyMax(a, b) == IF PyLess(a, b) THEN b ELSE a
Minus(a, b) == IF a = NaN \/ b = NaN THEN NaN ELSE a - b

\* a mutant for ResolveWeights: an explicit distance_weight is looked at
\* before sort_mode
ResolveWeights_WeightFirst(sort_mode, distance_weight, query) ==
    IF ~IsNone(distance_weight)
    THEN Weights(PyMax(0, PyMin(Minus(10, The(distance_weight)), 10)),
                 PyMax(0, PyMin(The(distance_weight), 10)))
    ELSE IF sort_mode = Some("distance") THEN Weights(0, 10)
    ELSE IF sort_mode = Some("relevance") THEN Weights(10, 0)
    ELSE IF auto_distance_bias(query) THEN Weights(5, 5)
    ELSE Weights(7, 3)

\* a mutant for ResolveWeights: the weights of the two sort modes are swapped
ResolveWeights_Swapped(sort_mode, distance_weight, query) ==
    IF sort_mode = Some("distance") THEN Weights(10, 0)
    ELSE IF sort_mode = Some("relevance") THEN Weights(0, 10)
    ELSE IF ~IsNone(distance_weight)
    THEN Weights(PyMax(0, PyMin(Minus(10, The(distance_weight)), 10)),
                 PyMax(0, PyMin(The(distance_weight), 10)))
    ELSE IF auto_distance_bias(query) THEN Weights(5, 5)
    ELSE Weights(7, 3)

\* a mutant for ResolveWeights: the two heuristic pairs are exchanged
ResolveWeights_CueInverted(sort_mode, distance_weight, query) ==
    IF sort_mode = Some("distance") THEN Weights(0, 10)
    ELSE IF sort_mode = Some("relevance") THEN Weights(10, 0)
    ELSE IF ~IsNone(distance_weight)
    THEN Weights(PyMax(0, PyMin(Minus(10, The(distance_weight)), 10)),
                 PyMax(0, PyMin(The(distance_weight), 10)))
    ELSE IF auto_distance_bias(query) THEN Weights(7, 3)
    ELSE Weights(5, 5)

\* Step 6, lines 519-532: the weights, in tenths
ResolveWeights(sort_mode, distance_weight, query) ==
    IF sort_mode = Some("distance") THEN Weights(0, 10)
    ELSE IF sort_mode = Some("relevance") THEN Weights(10, 0)
    ELSE IF ~IsNone(distance_weight)
    THEN Weights(PyMax(0, PyMin(Minus(10, The(distance_weight)), 10)),
                 PyMax(0, PyMin(The(distance_weight), 10)))
    ELSE IF auto_distance_bias(query) THEN Weights(5, 5)
    ELSE Weights(7, 3)

RECURSIVE MaxDistance(_)
MaxDistance(bs) ==
    IF Len(bs) = 1 THEN bs[1].distance_km
    ELSE Max2(bs[1].distance_km, MaxDistance(Tail(bs)))

\* line 534
max_distance_in_results(bs) == IF bs = <<>> THEN OneKm ELSE MaxDistance(bs)

\* the divisor of the normalised distance, in hundredths of a km
Divisor(req, bs) ==
    IF req.max_distance_km >= UnlimitedKm
    THEN Max2(max_distance_in_results(bs), OneKm)
    ELSE Max2(req.max_distance_km, OneKm)

\* sort_key, scaled by 100 * divisor
sort_key(w, divisor, business) ==
    w.rel_w * business.vector_score * divisor + w.dist_w * 10 * business.distance_km

\* list.sort(key=...): stable, ascending
RECURSIVE InsertByKey(_, _, _, _)
InsertByKey(sorted, b, w, divisor) ==
    IF sorted = <<>> THEN <<b>>
    ELSE IF sort_key(w, divisor, b) < sort_key(w, divisor, Head(sorted))
    THEN <<b>> \o sorted
    ELSE <<Head(sorted)>> \o InsertByKey(Tail(sorted), b, w, divisor)

RECURSIVE SortByKey(_, _, _, _)
SortByKey(bs, acc, w, divisor) ==
    IF bs = <<>> THEN acc
    ELSE SortByKey(Tail(bs), InsertByKey(acc, Head(bs), w, divisor), w, divisor)

\* Step 7
Limited(bs, limit) == SubSeq(bs, 1, Min2(limit, Len(bs)))

(***************************************************************************)
(* The whole call.  The outcome keeps the locals the properties speak of.  *)
(***************************************************************************)
Outcome(method, results, all, unique, located, within, w, divisor) ==
    [method |-> method, ranked |-> TRUE, results |-> results, all_businesses |-> all,
     businesses_list |-> unique, located |-> located, within |-> within,
     weights |-> w, divisor |-> divisor]

\* the early returns and the two except clauses: nothing was ranked
Failed(method) ==
    [method |-> method, ranked |-> FALSE, results |-> <<>>, all_businesses |-> <<>>,
     businesses_list |-> <<>>, located |-> <<>>, within |-> <<>>,
     weights |-> Weights(0, 0), divisor |-> 0]

\* the retrieve response: the call raised, or a status and a JSON body
Unreachable == [status |-> "exception", data |-> <<>>]
HttpError == [status |-> "500", data |-> <<>>]
Ok(items) == [status |-> "200", data |-> items]

\* Step 7: the limit, and the method reported with the list
Step7(limited, all, unique, located, within, w, divisor) ==
    Outcome(IF limited = <<>> THEN "vectorized_empty" ELSE "vectorized",
            limited, all, unique, located, within, w, divisor)

\* Step 6: weights, divisor, sort
Step6Sort(req, filtered, all, unique, located, within, w, divisor) ==
    Step7(Limited(SortByKey(filtered, <<>>, w, divisor), req.limit),
          all, unique, located, within, w, divisor)

Step6(req, filtered, all, unique, located, within) ==
    Step6Sort(req, filtered, all, unique, located, within,
              ResolveWeights(req.sort_mode, req.distance_weight, req.query),
              Divisor(req, filtered))

\* Step 5: category and tag filters
Step5Tags(req, byCategory, all, unique, located, within) ==
    IF TagFilterRaises(req, byCategory) THEN Failed("error")
    ELSE Step6(req, TagFiltered(req, byCategory), all, unique, located, within)

Step5(req, all, unique, located, within) ==
    Step5Tags(req, CategoryFiltered(req, within), all, unique, located, within)

\* Step 4: distances and the distance filter
Step4Filter(req, all, unique, located) ==
    Step5(req, all, unique, located, DistanceFiltered(req, located))

Step4(req, all, unique) ==
    Step4Filter(req, all, unique, [i \in 1..Len(unique) |-> Located(req, unique[i])])

\* Step 3: duplicates
Step3(req, all) == Step4(req, all, Dedup(all, <<>>))

\* Step 1, lines 419-425: search_query += ... on a query that is None is a
\* TypeError
QueryRaises(req) ==
    /\ IsNone(req.query)
    /\ \/ ~IsNone(req.category_filter) /\ The(req.category_filter) # ""
       \/ TagFilterActive(req)

search_businesses_vectorized(req, response) ==
    IF QueryRaises(req) THEN Failed("error")
    ELSE IF response.status = "exception" THEN Failed("vectorized_error")
    ELSE IF response.status # "200" THEN Failed("vectorized_error")
    ELSE IF response.data = <<>> THEN Failed("vectorized_empty")
    ELSE IF ParseRaises(response.data) THEN Failed("error")
    ELSE Step3(req, AllBusinesses(response.data))

(***************************************************************************)
(* Inputs of Part II                                                       *)
(***************************************************************************)
\* the longest retrieve response of the ranking specification
MaxRetrieved == 2

Cafe == DataRecord(<<"Bob">>, <<"Cafe">>, <<"500.0", "0.0">>, <<"coffee shop">>,
                   <<"coffee", "wifi">>)
\* the same name and place as Cafe, registered again with another category
CafeAgain == DataRecord(<<"Bob">>, <<"Cafe">>, <<"500", "0.0">>, <<"closed">>, <<"">>)
\* another business at the place of Cafe
Bistro == DataRecord(<<"Bob">>, <<"Bistro">>, <<"500.0", "0.0">>, <<"coffee shop">>,
                     <<"coffee">>)
Bakery == DataRecord(<<"Ann">>, <<"Bakery">>, <<"5000.0", "0.0">>, <<"bakery">>,
                     <<"bread">>)
Edge == DataRecord(<<"Eve">>, <<"Edge">>, <<"9996.0", "0.0">>, <<"bakery">>, <<"bread">>)
Over == DataRecord(<<"Eve">>, <<"Over">>, <<"10004.0", "0.0">>, <<"coffee shop">>,
                   <<"wifi">>)
Far == DataRecord(<<"Eve">>, <<"Far">>, <<"10004000.0", "0.0">>, <<"coffee shop">>,
                  <<"wifi">>)

\* a JSON object whose category is a number
BadTypeJson ==
    JsonFragment(<< [business_name |-> JStr(<<"Cafe">>), business_category |-> JNum(5),
                     latitude |-> JNum(500), longitude |-> JNum(0)] >>)
\* a valid JSON object whose tags are an array
ListTagsJson ==
    JsonFragment(<< [business_name |-> JStr(<<"Far">>),
                     business_category |-> JStr(<<"coffee shop">>),
                     business_tags |-> JList(<<"wifi">>),
                     latitude |-> JNum(10004000), longitude |-> JNum(0)] >>)
\* two rows of the TXT mirror in one chunk
TwoRows ==
    TextFragment(TxtMirrorRow(Bakery).lines \o TxtMirrorRow(Edge).lines)

\* candidates of the ranking specification: the same file at two scores, the
\* same business registered twice, two businesses at one place, the same
\* business in a file and in the mirror, places on both sides of the 10 km
\* radius, and the two odd objects
RankItems ==
    { Item(write_business_file(Cafe), 2, "cafe.json"),
      Item(write_business_file(Cafe), 8, "cafe.json"),
      Item(write_business_file(CafeAgain), 8, "cafe2.json"),
      Item(write_business_file(Bistro), 8, "bistro.json"),
      Item(write_business_file(Bakery), 2, "bakery.json"),
      Item(write_business_file(Over), 8, "over.json"),
      Item(TwoRows, 2, "mirror.txt"),
      Item(BadTypeJson, 2, "bad.json"),
      Item(ListTagsJson, 8, "list.json") }

RankResponses ==
    { Ok(items) : items \in UNION { [1..k -> RankItems] : k \in 0..MaxRetrieved } }
    \cup { Unreachable, HttpError }

SortModes == { None, Some("distance"), Some("relevance") }

RankRequests ==
    { SearchRequest(q, 0, m, None, None, 20, dw, sm) :
        q \in { Some("coffee near me"), Some("coffee") },
        m \in { 1000, UnlimitedKm },
        dw \in { None, Some(3) },
        sm \in SortModes }
    \cup { SearchRequest(Some("coffee"), 0, 1000, None, None, 1, None, None),
           SearchRequest(Some("coffee"), 0, UnlimitedKm, None, None, 1, None,
                         Some("distance")),
           SearchRequest(Some("coffee"), 2000, 1000, Some("Coffee"), None, 20, None, None),
           SearchRequest(Some("coffee"), 0, 1000, None, Some(<<"wifi">>), 20, None, None),
           SearchRequest(None, 0, 50, Some(""), Some(<<>>), 20, None, Some("distance")),
           SearchRequest(None, 0, 1000, Some("Coffee"), None, 20, None, None),
           SearchRequest(Some("coffee"), 0, UnlimitedKm, None, Some(<<"wifi", "bread">>),
                         20, None, None) }

\* Scenario A: a coffee shop 0.5 km away with relevance 0.8 and a bakery 5 km
\* away with relevance 0.2
ScenarioA ==
    << Item(write_business_file(Cafe), 8, "cafe.json"),
       Item(write_business_file(Bakery), 2, "bakery.json") >>

ScenarioARequest ==
    SearchRequest(Some("coffee near me"), 0, 1000, None, None, 20, None, None)

WeightResponses ==
    { Ok(ScenarioA),
      Ok(<< ScenarioA[2], ScenarioA[1] >>),
      Ok(<< Item(write_business_file(Far), 2, "far.json") >>) }

Queries ==
    { None, Some(""), Some("coffee near me"), Some("Nearby cafes"),
      Some("closest bakery"), Some("food around me"), Some("near park"),
      Some("linear"), Some("coffee") }

WeightRequests ==
    { SearchRequest(q, 0, m, None, None, 20, dw, sm) :
        q \in Queries,
        m \in { 1000, UnlimitedKm },
        dw \in { None, Some(0), Some(3), Some(10), Some(-5), Some(15), Some(NaN) },
        sm \in SortModes \cup { Some("hybrid"), Some("nearest") } }

(***************************************************************************)
(* Part II as a state machine                                              *)
(***************************************************************************)
\* one call of search_businesses_vectorized, with a request of requests and
\* the backend answering with one of responses
Search(requests, responses) ==
    /\ IsNone(request)
    /\ \E req \in requests, response \in responses :
        /\ request' = Some(req)
        /\ retrieved' = Some(response)
        /\ out' = Some(search_businesses_vectorized(req, response))
    /\ prev' = None
    /\ UNCHANGED parseVars
    /\ UNCHANGED cfVars

SwapAt(items, i) ==
    [j \in 1..Len(items) |->
        IF j = i THEN items[i + 1] ELSE IF j = i + 1 THEN items[i] ELSE items[j]]

\* the same request again, the backend answering with two neighbouring
\* candidates exchanged
Resubmit(i) ==
    /\ ~IsNone(request)
    /\ IsNone(prev)
    /\ The(retrieved).status = "200"
    /\ i \in 1..(Len(The(retrieved).data) - 1)
    /\ retrieved' = Some(Ok(SwapAt(The(retrieved).data, i)))
    /\ out' = Some(search_businesses_vectorized(The(request), The(retrieved')))
    /\ prev' = out
    /\ UNCHANGED request
    /\ UNCHANGED parseVars
    /\ UNCHANGED cfVars

SearchNext ==
    \/ Search(RankRequests, RankResponses)
    \/ \E i \in 1..MaxRetrieved : Resubmit(i)

SpecSearch == Init /\ [][SearchNext]_vars

WeightsNext ==
    \/ Search(WeightRequests, WeightResponses)
    \/ \E i \in 1..MaxRetrieved : Resubmit(i)

SpecWeights == Init /\ [][WeightsNext]_vars

(***************************************************************************)
(* Properties                                                              *)
(***************************************************************************)
\* the call reached Step 7: it returned from line 554 or 556
Ranked == ~IsNone(out) /\ The(out).ranked

\* the distance of a record from the user of the request, in metres
DistanceFromUser(b) ==
    calculate_distance(The(request).user_lat, The(request).user_lng,
                       b.latitude, b.longitude)

\* the hybrid score of a returned record, on the scale of the call
ScoreOf(b) == sort_key(The(out).weights, The(out).divisor, b)

KeysOf(bs) == [i \in 1..Len(bs) |-> DedupKey(bs[i])]

\* C1: with max_distance_km below 10000 no returned record lies farther from
\* the user than max_distance_km; with max_distance_km of 10000 or more the
\* distance step removes no record.
C1_DistanceCutoff ==
    Ranked =>
        /\ The(request).max_distance_km < UnlimitedKm =>
              \A i \in 1..Len(The(out).results) :
                  DistanceFromUser(The(out).results[i])
                      <= The(request).max_distance_km * 10
        /\ The(request).max_distance_km >= UnlimitedKm =>
              The(out).within = The(out).located

\* C1: a record whose rounded distance_km equals max_distance_km was removed
\* for lying beyond it, and another record was returned
C1_Witness ==
    /\ Ranked
    /\ The(request).max_distance_km < UnlimitedKm
    /\ The(out).results # <<>>
    /\ \E i \in 1..Len(The(out).located) :
          /\ The(out).located[i].distance_km = The(request).max_distance_km
          /\ DistanceFromUser(The(out).located[i])
                 > The(request).max_distance_km * 10
          /\ \A j \in 1..Len(The(out).within) :
                 The(out).within[j] # The(out).located[i]

\* C2: with sort_mode "distance" the returned list is in ascending order of
\* distance_km, whatever the scores, distance_weight and max_distance_km.
C2_DistanceModeAscending ==
    (Ranked /\ The(request).sort_mode = Some("distance")) =>
        \A i, j \in 1..Len(The(out).results) :
            i < j => The(out).results[i].distance_km <= The(out).results[j].distance_km

\* C2: sort_mode "distance" with a distance_weight too; the nearer record has
\* the worse score and is returned first
C2_Witness ==
    /\ Ranked
    /\ The(request).sort_mode = Some("distance")
    /\ ~IsNone(The(request).distance_weight)
    /\ Len(The(out).results) = 2
    /\ The(out).results[1].distance_km < The(out).results[2].distance_km
    /\ The(out).results[1].vector_score > The(out).results[2].vector_score

\* the call of Scenario A, its two candidates retrieved in either order
IsScenarioA ==
    /\ Ranked
    /\ request = Some(ScenarioARequest)
    /\ The(retrieved).data \in { ScenarioA, << ScenarioA[2], ScenarioA[1] >> }

\* C3, as the code has it: in Scenario A the weights resolve to (0.5, 0.5)
\* and the bakery is ranked first, its score 0.35 being lower than the
\* coffee shop's 0.425.
C3_ScenarioA_BakeryFirst ==
    IsScenarioA =>
        /\ The(out).weights = Weights(5, 5)
        /\ Len(The(out).results) = 2
        /\ The(out).results[1].business_name = <<"Bakery">>
        /\ ScoreOf(The(out).results[1]) < ScoreOf(The(out).results[2])

\* C3: Scenario A was searched, the coffee shop retrieved first
C3_Witness ==
    /\ IsScenarioA
    /\ The(retrieved).data = ScenarioA
    /\ The(out).results[2].business_category = <<"coffee shop">>

\* C3, as stated: in Scenario A the weights resolve to (0.5, 0.5) and the
\* coffee shop is ranked first.
C3_ScenarioA_CoffeeShopFirst ==
    IsScenarioA =>
        /\ The(out).weights = Weights(5, 5)
        /\ The(out).results[1].business_category = <<"coffee shop">>

\* C4, as stated: the returned list is in ascending order of hybrid score, and
\* two records of equal hybrid score are in ascending order of vector_score.
C4_ScoreThenRelevance ==
    Ranked =>
        \A i, j \in 1..Len(The(out).results) :
            i < j =>
                /\ ScoreOf(The(out).results[i]) <= ScoreOf(The(out).results[j])
                /\ ScoreOf(The(out).results[i]) = ScoreOf(The(out).results[j]) =>
                      The(out).results[i].vector_score
                          <= The(out).results[j].vector_score

\* C5, as stated: the same request over the same candidates in another order
\* returns the businesses in the same order.
C5_OrderIndependent ==
    (Ranked /\ ~IsNone(prev) /\ The(prev).ranked) =>
        KeysOf(The(out).results) = KeysOf(The(prev).results)

\* the queries of WeightRequests that hold a locality cue
CueQueries ==
    { Some("coffee near me"), Some("Nearby cafes"), Some("closest bakery"),
      Some("food around me"), Some("near park") }

\* C6: sort_mode "distance" gives (0, 1) and "relevance" gives (1, 0), with
\* or without a distance_weight; under any other sort_mode a distance_weight
\* in [0, 1] gives (1 - distance_weight, distance_weight); with neither, a
\* query with a locality cue gives (0.5, 0.5) and any other query (0.7, 0.3).
C6_WeightPriority ==
    Ranked =>
        /\ The(request).sort_mode = Some("distance") =>
              The(out).weights = Weights(0, 10)
        /\ The(request).sort_mode = Some("relevance") =>
              The(out).weights = Weights(10, 0)
        /\ The(request).sort_mode \notin { Some("distance"), Some("relevance") } =>
              /\ (/\ ~IsNone(The(request).distance_weight)
                  /\ The(The(request).distance_weight) \in 0..10) =>
                    The(out).weights =
                        Weights(10 - The(The(request).distance_weight),
                                The(The(request).distance_weight))
              /\ (IsNone(The(request).distance_weight)
                  /\ The(request).query \in CueQueries) =>
                    The(out).weights = Weights(5, 5)
              /\ (IsNone(The(request).distance_weight)
                  /\ The(request).query \notin CueQueries) =>
                    The(out).weights = Weights(7, 3)

\* C6: sort_mode "distance" together with a distance_weight of 0.3 and a
\* query with a locality cue
C6_Witness ==
    /\ Ranked
    /\ The(request).sort_mode = Some("distance")
    /\ The(request).distance_weight = Some(3)
    /\ The(request).query = Some("coffee near me")
    /\ The(out).weights = Weights(0, 10)

\* C7: after deduplication no two records share a key, every parsed key is
\* kept, and the record kept for a key has the lowest vector_score of the
\* parsed records with that key.
C7_DedupKeepsLowest ==
    Ranked =>
        /\ \A i, j \in 1..Len(The(out).businesses_list) :
              i # j => DedupKey(The(out).businesses_list[i])
                           # DedupKey(The(out).businesses_list[j])
        /\ \A a \in 1..Len(The(out).all_businesses) :
              \E i \in 1..Len(The(out).businesses_list) :
                  /\ DedupKey(The(out).businesses_list[i])
                         = DedupKey(The(out).all_businesses[a])
                  /\ The(out).businesses_list[i].vector_score
                         <= The(out).all_businesses[a].vector_score
        /\ \A i \in 1..Len(The(out).businesses_list) :
              \E a \in 1..Len(The(out).all_businesses) :
                  The(out).all_businesses[a] = The(out).businesses_list[i]

\* C7: two parsed records share a key, the later one has the lower score and
\* is the one kept
C7_Witness ==
    /\ Ranked
    /\ Len(The(out).all_businesses) = 2
    /\ DedupKey(The(out).all_businesses[1]) = DedupKey(The(out).all_businesses[2])
    /\ The(out).all_businesses[2].vector_score
           < The(out).all_businesses[1].vector_score
    /\ The(out).businesses_list = << The(out).all_businesses[2] >>

\* C8: every record parse_business_from_text returns has a non-empty
\* category, a latitude in [-90, 90] and a longitude in [-180, 180].
C8_ParsedRecordsValid ==
    ~IsNone(parsed) =>
        \A i \in 1..Len(The(parsed).businesses) :
            /\ The(parsed).businesses[i].business_category # Empty
            /\ The(parsed).businesses[i].business_category # <<>>
            /\ -LatMax <= The(parsed).businesses[i].latitude
            /\ The(parsed).businesses[i].latitude <= LatMax
            /\ -LngMax <= The(parsed).businesses[i].longitude
            /\ The(parsed).businesses[i].longitude <= LngMax

\* C8: rows were parsed, some were returned and some dropped
C8_Witness ==
    /\ ~IsNone(parsed)
    /\ The(fragment).kind = "text"
    /\ Len(The(parsed).businesses) >= 2
    /\ Len(The(parsed).businesses) < Len(The(fragment).lines)

\* C9, as stated: when one retrieved fragment parses to records, the search
\* does not fail and those records are among the parsed businesses, whatever
\* the other fragments hold.
C9_OtherFragmentsSurvive ==
    (/\ ~IsNone(out)
     /\ The(retrieved).status = "200"
     /\ ~TagFilterActive(The(request))
     /\ ~QueryRaises(The(request))) =>
        \A i \in 1..Len(The(retrieved).data) :
            LET p == parse_business_from_text(The(retrieved).data[i].text) IN
            (~p.raised /\ p.businesses # <<>>) =>
                /\ The(out).ranked
                /\ \A k \in 1..Len(p.businesses) :
                      \E a \in 1..Len(The(out).all_businesses) :
                          DedupKey(The(out).all_businesses[a])
                              = DedupKey(p.businesses[k])

\* a registered business with an owner, a name, a category and coordinates
\* in range
Complete(r) ==
    /\ Truthy(Strip(r.name))
    /\ Truthy(Strip(r.business_name))
    /\ Truthy(Strip(r.business_category))
    /\ ~IsNone(parse_lat_lng(r.lat_long))
    /\ -LatMax <= The(parse_lat_lng(r.lat_long))[1]
    /\ The(parse_lat_lng(r.lat_long))[1] <= LatMax
    /\ -LngMax <= The(parse_lat_lng(r.lat_long))[2]
    /\ The(parse_lat_lng(r.lat_long))[2] <= LngMax

\* C10, as stated: the JSON object, the key:value block and the delimited
\* row of one complete business parse to the same records.
C10_SameRecordInEveryFormat ==
    (/\ ~IsNone(record_in)
     /\ Complete(The(record_in))
     /\ \A fmt \in Formats : ~IsNone(parsedAs[fmt])) =>
        /\ The(parsedAs["json"]).businesses = The(parsedAs["kv"]).businesses
        /\ The(parsedAs["json"]).businesses = The(parsedAs["csv"]).businesses

(***************************************************************************)
(* Part III: the interaction ledger (CollaborativeFilteringEngine of       *)
(* src/collaborative_filtering_simple.py, which upload_api imports, and of *)
(* src/collaborative_filtering.py).  Ratings are in tenths.                *)
(***************************************************************************)
\* a mutant for calculate_implicit_rating: the dwell bonus is given to every
\* kind
calculate_implicit_rating_AnyKind(interaction_type, dwell_time) ==
    Min2(50,
         (CASE interaction_type = "search" -> 10
            [] interaction_type = "view" -> 20
            [] interaction_type = "click" -> 30
            [] interaction_type = "bookmark" -> 50
            [] interaction_type = "share" -> 40
            [] OTHER -> 10)
         + (IF ~IsNone(dwell_time) /\ The(dwell_time) > 30 THEN 5 ELSE 0)
         + (IF ~IsNone(dwell_time) /\ The(dwell_time) > 120 THEN 10 ELSE 0))

\* base_ratings.get(interaction_type, 1.0), the two boosts, min(rating, 5.0);
\* `if dwell_time` is false for None and for 0
calculate_implicit_rating(interaction_type, dwell_time) ==
    Min2(50,
         (CASE interaction_type = "search" -> 10
            [] interaction_type = "view" -> 20
            [] interaction_type = "click" -> 30
            [] interaction_type = "bookmark" -> 50
            [] interaction_type = "share" -> 40
            [] OTHER -> 10)
         + (IF ~IsNone(dwell_time) /\ The(dwell_time) # 0
               /\ interaction_type \in {"view", "click"} /\ The(dwell_time) > 30
            THEN 5 ELSE 0)
         + (IF ~IsNone(dwell_time) /\ The(dwell_time) # 0
               /\ interaction_type \in {"view", "click"} /\ The(dwell_time) > 120
            THEN 10 ELSE 0))

\* the longest dwell time rated, in seconds
MaxDwell == 125

\* the five kinds of an interaction, and one the engine does not know
Kinds == {"search", "view", "click", "share", "bookmark"}
KindInputs == Kinds \cup {"like"}

DwellInputs == {None, Some(-5)} \cup { Some(d) : d \in 0..MaxDwell }

\* track_interaction, lines 797-801: the rating of one tracked action
Rate(interaction_type, dwell_time) ==
    /\ rated' = Some([interaction_type |-> interaction_type,
                      dwell_time |-> dwell_time,
                      rating |-> calculate_implicit_rating(interaction_type,
                                                           dwell_time)])
    /\ UNCHANGED <<store, now, cf, call, asked>>
    /\ UNCHANGED parseVars
    /\ UNCHANGED searchVars

RatingNext == \E k \in KindInputs, d \in DwellInputs : Rate(k, d)

SpecRating == Init /\ [][RatingNext]_vars

\* the dwell time of the rated call counts as longer than s seconds
DwellOver(s) == ~IsNone(The(rated).dwell_time) /\ The(The(rated).dwell_time) > s

\* C11: the rating is the base value of the kind (search 1.0, view 2.0,
\* click 3.0, share 4.0, bookmark 5.0), plus 0.5 for a view or click with a
\* dwell over 30 s and 1.0 more with a dwell over 120 s, no bonus for the
\* other kinds; it is never above 5.0 and never below 1.0.
C11_ImplicitRating ==
    ~IsNone(rated) =>
        /\ The(rated).rating >= 10
        /\ The(rated).rating <= 50
        /\ The(rated).interaction_type = "search" => The(rated).rating = 10
        /\ The(rated).interaction_type = "share" => The(rated).rating = 40
        /\ The(rated).interaction_type = "bookmark" => The(rated).rating = 50
        /\ The(rated).interaction_type = "view" =>
              The(rated).rating = 20 + (IF DwellOver(30) THEN 5 ELSE 0)
                                     + (IF DwellOver(120) THEN 10 ELSE 0)
        /\ The(rated).interaction_type = "click" =>
              The(rated).rating = 30 + (IF DwellOver(30) THEN 5 ELSE 0)
                                     + (IF DwellOver(120) THEN 10 ELSE 0)

\* C11: a click with a dwell of more than two minutes is rated 4.5
C11_Witness ==
    /\ ~IsNone(rated)
    /\ The(rated).interaction_type = "click"
    /\ The(rated).dwell_time = Some(121)
    /\ The(rated).rating = 45

(***************************************************************************)
(* Part IV: the store and record_interaction.  The store is the Redis      *)
(* server: data maps a key <<pattern, id>> to its value, a sorted set (a   *)
(* set of [member, score]) or a string value (Optional); expires maps a    *)
(* key to the minute at which the server deletes it, if it has one.  Time  *)
(* is in minutes; an interaction's timestamp is the clock of the call, as  *)
(* upload_api passes datetime.now(), and every call happens one minute     *)
(* after the event before it, so that no two calls share a timestamp.      *)
(***************************************************************************)
\* the i-th query text of the model
Query(i) == "q" \o ToString(i)

Users == {"u1", "u2", "u3"}
BusinessIds == {"b1", "b2", "b3", "b4", "b5", "search_query"}
Categories == {"cafe", "bakery"}
Tags == {"coffee", "bread"}

\* expire_time = 30 * 24 * 3600 seconds, in minutes
Retention == 43200
\* the lifetime of a cached similar_users list: 3600 seconds, in minutes
CacheTtl == 60
\* the length search_patterns is cut to
PatternCap == 20

USER_INTERACTIONS_KEY(user_id) == <<"user_interactions", user_id>>
BUSINESS_INTERACTIONS_KEY(business_id) == <<"business_interactions", business_id>>
SEARCH_QUERIES_KEY(user_id) == <<"search_queries", user_id>>
SIMILAR_USERS_KEY(user_id) == <<"similar_users", user_id>>
POPULAR_SEARCHES_KEY == <<"popular_searches", "">>
USER_PREFERENCES_KEY(user_id) == <<"user_preferences", user_id>>

Keys ==
    { USER_INTERACTIONS_KEY(u) : u \in Users }
        \cup { BUSINESS_INTERACTIONS_KEY(b) : b \in BusinessIds }
        \cup { SEARCH_QUERIES_KEY(u) : u \in Users }
        \cup { SIMILAR_USERS_KEY(u) : u \in Users }
        \cup { USER_PREFERENCES_KEY(u) : u \in Users }
        \cup { POPULAR_SEARCHES_KEY }

\* a key that holds a string value (set with SETEX, read with GET)
IsStringKey(k) == k[1] \in {"similar_users", "user_preferences"}
\* what a read of a key that does not exist gives
Absent(k) == IF IsStringKey(k) THEN None ELSE {}

EmptyStore == [data |-> [k \in Keys |-> Absent(k)], expires |-> [k \in Keys |-> None]]

\* the store commands the engine uses
zadd(s, k, member, score) ==
    [s EXCEPT !.data[k] = { e \in @ : e.member # member }
                              \cup {[member |-> member, score |-> score]}]

ScoreIn(z, member) ==
    IF \E e \in z : e.member = member
    THEN (CHOOSE e \in z : e.member = member).score
    ELSE 0

zincrby(s, k, amount, member) ==
    [s EXCEPT !.data[k] = { e \in @ : e.member # member }
                              \cup {[member |-> member,
                                     score |-> ScoreIn(@, member) + amount]}]

\* EXPIRE changes nothing when the key does not exist
expire(s, k, seconds, t) ==
    IF s.data[k] = Absent(k) THEN s
    ELSE [s EXCEPT !.expires[k] = Some(t + seconds)]

setex(s, k, seconds, value, t) ==
    [s EXCEPT !.data[k] = Some(value), !.expires[k] = Some(t + seconds)]

\* the server at minute t: every key whose time has come is gone
Expired(s, t) ==
    [data |-> [k \in Keys |->
                  IF ~IsNone(s.expires[k]) /\ The(s.expires[k]) <= t
                  THEN Absent(k) ELSE s.data[k]],
     expires |-> [k \in Keys |->
                  IF ~IsNone(s.expires[k]) /\ The(s.expires[k]) <= t
                  THEN None ELSE s.expires[k]]]

\* the engines: module is "simple" (collaborative_filtering_simple, the one
\* upload_api imports) or "full" (collaborative_filtering)
NewEngine(module, redis_available) ==
    [module |-> module, redis_client |-> FALSE, enabled |-> redis_available]

\* connect of the simple engine: the client is assigned before the ping, a
\* failed ping only clears enabled.  connect of the full engine assigns the
\* client and sends nothing.
connect(engine, fault) ==
    IF engine.module = "simple"
    THEN IF ~engine.enabled \/ engine.redis_client THEN engine
         ELSE [engine EXCEPT !.redis_client = TRUE,
                             !.enabled = "ping" \notin fault]
    ELSE [engine EXCEPT !.redis_client = TRUE]

\* json of interaction_data and of business_data
interaction_data(interaction, t) ==
    [business_id |-> interaction.business_id,
     business_name |-> interaction.business_name,
     type |-> interaction.interaction_type,
     timestamp |-> t,
     query |-> interaction.query,
     category |-> interaction.category,
     tags |-> interaction.tags,
     rating |-> interaction.implicit_rating]

business_data(interaction, t) ==
    [user_id |-> interaction.user_id,
     type |-> interaction.interaction_type,
     timestamp |-> t,
     rating |-> interaction.implicit_rating]

\* UserPreferences as _update_user_preferences creates it; a dictionary of
\* scores is a function with 0 for an absent key (every rating is positive)
NewPreferences(user_id, t) ==
    [user_id |-> user_id,
     preferred_categories |-> [c \in Categories |-> 0],
     preferred_tags |-> [g \in Tags |-> 0],
     preferred_locations |-> <<>>,
     search_patterns |-> <<>>,
     last_updated |-> t]

RECURSIVE AddTags(_, _, _)
AddTags(scores, tags, rating) ==
    IF tags = <<>> THEN scores
    ELSE AddTags([scores EXCEPT ![Head(tags)] = @ + rating], Tail(tags), rating)

\* the last n elements of a list: list[-n:]
LastN(list, n) ==
    IF Len(list) <= n THEN list ELSE SubSeq(list, Len(list) - n + 1, Len(list))

InSeq(x, list) == \E i \in 1..Len(list) : list[i] = x

\* lines 190-207: the preferences after one interaction
UpdatedPreferences(prefs, interaction, t) ==
    [prefs EXCEPT
        !.preferred_categories =
            IF IsNone(interaction.category) THEN @
            ELSE [@ EXCEPT ![The(interaction.category)] =
                               @ + interaction.implicit_rating],
        !.preferred_tags = AddTags(@, interaction.tags, interaction.implicit_rating),
        !.search_patterns =
            IF ~IsNone(interaction.query) /\ ~InSeq(The(interaction.query), @)
            THEN LastN(Append(@, The(interaction.query)), PatternCap)
            ELSE @,
        !.last_updated = t]

\* the store commands of one record_interaction, in the order of the code
CommandsOf(engine, interaction) ==
    <<"zadd_user", "zadd_business">>
        \o (IF IsNone(interaction.query) THEN <<>> ELSE <<"zadd_search", "zincrby">>)
        \o <<"expire_user", "expire_business">>
        \o (IF engine.module = "full" THEN <<"get_prefs", "setex_prefs">> ELSE <<>>)

\* one command on the running call m = [store, prefs_data]
Exec(m, c, interaction, t) ==
    CASE c = "zadd_user" ->
           [m EXCEPT !.store = zadd(@, USER_INTERACTIONS_KEY(interaction.user_id),
                                    interaction_data(interaction, t), t)]
      [] c = "zadd_business" ->
           [m EXCEPT !.store = zadd(@, BUSINESS_INTERACTIONS_KEY(interaction.business_id),
                                    business_data(interaction, t), t)]
      [] c = "zadd_search" ->
           [m EXCEPT !.store = zadd(@, SEARCH_QUERIES_KEY(interaction.user_id),
                                    The(interaction.query), t)]
      [] c = "zincrby" ->
           [m EXCEPT !.store = zincrby(@, POPULAR_SEARCHES_KEY, 1,
                                       The(interaction.query))]
      [] c = "expire_user" ->
           [m EXCEPT !.store = expire(@, USER_INTERACTIONS_KEY(interaction.user_id),
                                      Retention, t)]
      [] c = "expire_business" ->
           [m EXCEPT !.store = expire(@, BUSINESS_INTERACTIONS_KEY(interaction.business_id),
                                      Retention, t)]
      [] c = "get_prefs" ->
           [m EXCEPT !.prefs_data = m.store.data[USER_PREFERENCES_KEY(interaction.user_id)]]
      [] c = "setex_prefs" ->
           [m EXCEPT !.store =
               setex(@, USER_PREFERENCES_KEY(interaction.user_id), Retention,
                     UpdatedPreferences(IF IsNone(m.prefs_data)
                                        THEN NewPreferences(interaction.user_id, t)
                                        ELSE The(m.prefs_data),
                                        interaction, t),
                     t)]

\* the commands run in order until one is answered with an error
RECURSIVE Run(_, _, _, _, _)
Run(m, commands, fault, interaction, t) ==
    IF commands = <<>> THEN m
    ELSE IF Head(commands) \in fault THEN [m EXCEPT !.failed = TRUE]
    ELSE Run(Exec(m, Head(commands), interaction, t), Tail(commands), fault,
             interaction, t)

\* record_interaction of the engine on store s at minute t: the engine and the
\* store after it, whether a command failed, whether the call raised
Recorded(engine, m, raises) ==
    [engine |-> engine, store |-> m.store, failed |-> m.failed,
     raised |-> raises /\ m.failed]

record_interaction(engine, s, interaction, fault, t) ==
    IF engine.module = "simple" /\ ~engine.enabled
    THEN [engine |-> engine, store |-> s, failed |-> FALSE, raised |-> FALSE]
    ELSE Recorded(connect(engine, fault),
                  Run([store |-> s, prefs_data |-> None,
                       failed |-> engine.module = "simple" /\ ~engine.redis_client
                                     /\ "ping" \in fault],
                      CommandsOf(engine, interaction), fault, interaction, t),
                  engine.module = "full")

(***************************************************************************)
(* Part IV as a state machine: the interactions the endpoints record       *)
(***************************************************************************)
\* what a client sends about a business: its name, category and tags
NameOf(business_id) == business_id
CategoryOf(business_id) ==
    CASE business_id = "b1" -> Some("cafe")
      [] business_id = "b2" -> Some("bakery")
      [] OTHER -> None
TagsOf(business_id) ==
    CASE business_id = "b1" -> <<"coffee">>
      [] business_id = "b2" -> <<"bread">>
      [] OTHER -> <<>>

\* upload_api, lines 683-698: the interaction of a search with a query
SearchEvent(user_id, q) ==
    [user_id |-> user_id,
     business_id |-> "search_query",
     business_name |-> q,
     interaction_type |-> "search",
     query |-> Some(q),
     category |-> None,
     tags |-> <<>>,
     implicit_rating |-> 10]

\* track_interaction, lines 797-818: the interaction of a tracked action
TrackedEvent(user_id, business_id, interaction_type, dwell_time, query) ==
    [user_id |-> user_id,
     business_id |-> business_id,
     business_name |-> NameOf(business_id),
     interaction_type |-> interaction_type,
     query |-> query,
     category |-> CategoryOf(business_id),
     tags |-> TagsOf(business_id),
     implicit_rating |-> calculate_implicit_rating(interaction_type, dwell_time)]

\* the commands a fault can name, and the ping of connect
CommandNames ==
    {"zadd_user", "zadd_business", "zadd_search", "zincrby", "expire_user",
     "expire_business", "get_prefs", "setex_prefs"}

\* the faults of one call: none, one command, the ping alone (the server
\* answers again right after it), the ping and the first command
Faults ==
    {{}} \cup { {c} : c \in CommandNames } \cup {{"ping"}, {"ping", "zadd_user"}}

\* the most calls of record_interaction in one run
MaxCalls == 2
\* the most calls that read (similarity, similar users, recommendations)
MaxReads == 2
\* the most times the clock is moved in one run
MaxTicks == 2
\* the last minute of a run
Horizon == 60000

LedgerEvents ==
    { SearchEvent("u1", Query(1)), SearchEvent("u1", Query(2)),
      SearchEvent("u1", Query(PatternCap + 1)),
      TrackedEvent("u1", "b1", "view", None, None),
      TrackedEvent("u2", "b1", "click", Some(40), Some(Query(1))),
      TrackedEvent("u2", "b3", "bookmark", None, None) }

\* twenty days
LedgerTicks == {28800}

\* a run so far: engine, store, clock, the queries recorded per user and
\* the interactions recorded;
\* each event is recorded a minute after the one before
Replayed(run, event, r) ==
    [engine |-> r.engine,
     store |-> r.store,
     now |-> run.now + 1,
     queries |-> IF IsNone(event.query) THEN run.queries
                 ELSE [run.queries EXCEPT ![event.user_id] = Append(@, The(event.query))],
     seen |-> run.seen \cup {[user_id |-> event.user_id,
                              business_id |-> event.business_id,
                              at |-> run.now + 1]}]

RECURSIVE Replay(_, _)
Replay(run, events) ==
    IF run.now >= Horizon \/ events = <<>> THEN run
    ELSE Replay(Replayed(run, Head(events),
                         record_interaction(run.engine, Expired(run.store, run.now + 1),
                                            Head(events), {}, run.now + 1)),
                Tail(events))

FreshRun(engine) ==
    [engine |-> engine, store |-> EmptyStore, now |-> 0,
     queries |-> [u \in Users |-> <<>>], seen |-> {}]

\* u1 has searched PatternCap different queries
TwentySearches(engine) ==
    Replay(FreshRun(engine), [i \in 1..PatternCap |-> SearchEvent("u1", Query(i))])

Engines ==
    { NewEngine("simple", TRUE), NewEngine("simple", FALSE), NewEngine("full", TRUE) }

LedgerScenarios ==
    { FreshRun(e) : e \in Engines }
        \cup { TwentySearches(e) : e \in {NewEngine("simple", TRUE), NewEngine("full", TRUE)} }

LedgerInit ==
    /\ record_in = None
    /\ parsedAs = [f \in Formats |-> None]
    /\ fragment = None
    /\ parsed = None
    /\ request = None
    /\ retrieved = None
    /\ out = None
    /\ prev = None
    /\ rated = None
    /\ call = None
    /\ \E run \in LedgerScenarios :
          /\ now = run.now
          /\ cf = Some(run.engine)
          /\ store = Some(run.store)
          /\ asked = Some([queries |-> run.queries, seen |-> run.seen,
                            clean |-> TRUE, calls |-> 0, reads |-> 0, ticks |-> 0])

\* no preferences are deleted when the clock of store s reaches t
PreferencesKept(s, t) ==
    \A u \in Users :
        Expired(s, t).data[USER_PREFERENCES_KEY(u)] = s.data[USER_PREFERENCES_KEY(u)]

\* the outcome r of record_interaction on the store `before` becomes the
\* state
RecordStep(interaction, fault, before, r) ==
    /\ now' = now + 1
    /\ cf' = Some(r.engine)
    /\ store' = Some(r.store)
    /\ call' = Some([op |-> "record_interaction",
                     args |-> interaction,
                     fault |-> fault,
                     before |-> before,
                     failed |-> r.failed,
                     raised |-> r.raised,
                     result |-> <<>>])
    /\ asked' = Some([queries |-> IF IsNone(interaction.query) THEN The(asked).queries
                                  ELSE [The(asked).queries EXCEPT ![interaction.user_id] =
                                           Append(@, The(interaction.query))],
                      seen |-> IF r.failed \/ r.store = before THEN The(asked).seen
                               ELSE The(asked).seen
                                        \cup {[user_id |-> interaction.user_id,
                                               business_id |-> interaction.business_id,
                                               at |-> now + 1]},
                      clean |-> The(asked).clean /\ ~r.failed
                                    /\ PreferencesKept(The(store), now + 1),
                      calls |-> The(asked).calls + 1,
                      reads |-> The(asked).reads,
                      ticks |-> The(asked).ticks])
    /\ UNCHANGED rated
    /\ UNCHANGED parseVars
    /\ UNCHANGED searchVars

\* an endpoint records an interaction, a minute after the last event; the
\* store may fail one command
RecordInteraction(events, faults) ==
    /\ ~IsNone(store)
    /\ The(asked).calls < MaxCalls
    /\ now + 1 <= Horizon
    /\ \E interaction \in events, fault \in faults :
          RecordStep(interaction, fault, Expired(The(store), now + 1),
                     record_interaction(The(cf), Expired(The(store), now + 1),
                                        interaction, fault, now + 1))

\* time passes: the server deletes the keys whose time has come.  The
\* outcome of the last call is about the store of its own minute.
Tick(minutes) ==
    /\ ~IsNone(store)
    /\ The(asked).ticks < MaxTicks
    /\ now + minutes <= Horizon
    /\ now' = now + minutes
    /\ store' = Some(Expired(The(store), now + minutes))
    /\ call' = None
    /\ asked' = Some([The(asked) EXCEPT
                         !.clean = @ /\ PreferencesKept(The(store), now + minutes),
                         !.ticks = @ + 1])
    /\ UNCHANGED <<rated, cf>>
    /\ UNCHANGED parseVars
    /\ UNCHANGED searchVars

LedgerNext ==
    \/ RecordInteraction(LedgerEvents, Faults)
    \/ \E minutes \in LedgerTicks : Tick(minutes)

SpecLedger == LedgerInit /\ [][LedgerNext]_vars

\* the last call was a record_interaction
Recording == ~IsNone(call) /\ The(call).op = "record_interaction"

\* C12: record_interaction never raises to its caller, whichever store
\* operation fails.
C12_RecordNeverRaises == Recording => ~The(call).raised

\* C13: when a store operation fails during record_interaction, the store
\* is left exactly as it was before the call.
C13_FailedCallIsNoOp ==
    (Recording /\ The(call).failed) => The(store) = The(call).before

\* the keys that hold what record_interaction writes for an interaction
LogKeys ==
    { USER_INTERACTIONS_KEY(u) : u \in Users }
        \cup { BUSINESS_INTERACTIONS_KEY(b) : b \in BusinessIds }
        \cup { SEARCH_QUERIES_KEY(u) : u \in Users }

\* C14: nothing written for an interaction (its entry in the log of the
\* user, its entry in the log of the business, its recorded query) is in the
\* store more than 30 days after it was written.
C14_WrittenDataExpires ==
    ~IsNone(store) =>
        \A k \in LogKeys : \A e \in The(store).data[k] : now - e.score <= Retention

\* a list of queries with each query at its latest arrival only
RECURSIVE LatestArrivals(_)
LatestArrivals(list) ==
    IF list = <<>> THEN <<>>
    ELSE IF InSeq(Head(list), Tail(list)) THEN LatestArrivals(Tail(list))
    ELSE <<Head(list)>> \o LatestArrivals(Tail(list))

\* search_patterns of a user in the store, empty without preferences
PatternsOf(user_id) ==
    IF IsNone(The(store).data[USER_PREFERENCES_KEY(user_id)]) THEN <<>>
    ELSE The(The(store).data[USER_PREFERENCES_KEY(user_id)]).search_patterns

\* C15: after any sequence of record_interaction calls on the full engine
\* (no command failed, no preferences expired), search_patterns of a user is
\* the queries of the user's most recent interactions with a query, in
\* order of arrival, at most PatternCap of them, the oldest dropped first.
\* A query that arrived more than once is counted at its latest arrival.
C15_RecentPatterns ==
    (~IsNone(store) /\ The(cf).module = "full" /\ The(asked).clean) =>
        \A u \in Users :
            PatternsOf(u) = LastN(LatestArrivals(The(asked).queries[u]), PatternCap)

\* the part of C15 that holds: never more than PatternCap patterns, each one
\* a query the user sent, none twice
C15_PatternsBounded ==
    (~IsNone(store) /\ The(cf).module = "full" /\ The(asked).clean) =>
        \A u \in Users :
            /\ Len(PatternsOf(u)) <= PatternCap
            /\ \A i \in 1..Len(PatternsOf(u)) : InSeq(PatternsOf(u)[i], The(asked).queries[u])
            /\ \A i, j \in 1..Len(PatternsOf(u)) : PatternsOf(u)[i] = PatternsOf(u)[j] => i = j

(***************************************************************************)
(* Part V: the recommender of src/collaborative_filtering.py.  A           *)
(* similarity is the cosine of two vectors of positive ratings; the model  *)
(* keeps its square as an exact fraction in lowest terms, [num, den], so   *)
(* that comparisons are exact: 0.0 is 0/1, and one similarity is above     *)
(* another when its square is.  A recommendation score, a sum of           *)
(* similarity * rating, is kept as its terms: per similar user, the        *)
(* similarity and the sum of the ratings it multiplies (round(score, 3)    *)
(* is not applied).                                                        *)
(***************************************************************************)
\* a user needs this many interactions before similar users are computed
min_interactions_for_cf == 3
\* similarity_threshold = 0.1, as 1 / SimilarityThresholdInverse
SimilarityThresholdInverse == 10
\* the limit get_collaborative_recommendations passes to find_similar_users
SimilarUsersLimit == 20

RECURSIVE Gcd(_, _)
Gcd(a, b) == IF b = 0 THEN a ELSE Gcd(b, a % b)

Fraction(num, den) == [num |-> num \div Gcd(num, den), den |-> den \div Gcd(num, den)]
ZeroSimilarity == [num |-> 0, den |-> 1]

\* similarity a is greater than similarity b
Above(a, b) == a.num * b.den > b.num * a.den
\* similarity > self.similarity_threshold
AboveThreshold(sim) ==
    sim.num * SimilarityThresholdInverse * SimilarityThresholdInverse > sim.den

\* the members of a sorted set by ascending score, from the lowest on
RECURSIVE ByScore(_)
ByScoreFrom(z, first) == <<first.member>> \o ByScore(z \ {first})
ByScore(z) ==
    IF z = {} THEN <<>>
    ELSE ByScoreFrom(z, CHOOSE e \in z : \A o \in z : e.score <= o.score)

\* get_user_interactions: zrangebyscore(user_key, now - 30 days, "+inf")
get_user_interactions(s, user_id, t) ==
    ByScore({ e \in s.data[USER_INTERACTIONS_KEY(user_id)] : e.score >= t - Retention })

BusinessesOf(interactions) ==
    { interactions[i].business_id : i \in 1..Len(interactions) }

\* {inter["business_id"]: inter["rating"] for inter in interactions}: the
\* rating of the last interaction with the business
RatingOf(interactions, business_id) ==
    interactions[CHOOSE i \in 1..Len(interactions) :
                    /\ interactions[i].business_id = business_id
                    /\ \A j \in (i + 1)..Len(interactions) :
                          interactions[j].business_id # business_id].rating

\* sums over a set of business ids; ratings are counted in halves (every
\* rating is a multiple of 0.5), which leaves the cosine as it is
RECURSIVE Dot(_, _, _)
Dot(x, y, ids) ==
    IF ids = {} THEN 0
    ELSE (RatingOf(x, CHOOSE b \in ids : TRUE) \div 5)
             * (RatingOf(y, CHOOSE b \in ids : TRUE) \div 5)
         + Dot(x, y, ids \ {CHOOSE b \in ids : TRUE})

\* sklearn's cosine_similarity([ratings1], [ratings2])[0][0], squared
cosine_similarity(x, y, ids) ==
    Fraction(Dot(x, y, ids) * Dot(x, y, ids), Dot(x, x, ids) * Dot(y, y, ids))

\* a mutant of SimilarityOf: one common business is enough
SimilarityOf_OneCommon(user1_interactions, user2_interactions) ==
    IF user1_interactions = <<>> \/ user2_interactions = <<>> THEN ZeroSimilarity
    ELSE IF Cardinality(BusinessesOf(user1_interactions)
                            \cap BusinessesOf(user2_interactions)) < 1
    THEN ZeroSimilarity
    ELSE cosine_similarity(user1_interactions, user2_interactions,
                           BusinessesOf(user1_interactions)
                               \cap BusinessesOf(user2_interactions))

\* lines 235-252
SimilarityOf(user1_interactions, user2_interactions) ==
    IF user1_interactions = <<>> \/ user2_interactions = <<>> THEN ZeroSimilarity
    ELSE IF Cardinality(BusinessesOf(user1_interactions)
                            \cap BusinessesOf(user2_interactions)) < 2
    THEN ZeroSimilarity
    ELSE cosine_similarity(user1_interactions, user2_interactions,
                           BusinessesOf(user1_interactions)
                               \cap BusinessesOf(user2_interactions))

calculate_user_similarity(s, user1_id, user2_id, t) ==
    SimilarityOf(get_user_interactions(s, user1_id, t),
                 get_user_interactions(s, user2_id, t))

\* the users in the logs of the businesses: zrange(business_key, 0, -1)
CoVisitors(s, user_id, business_ids) ==
    { e.member.user_id :
        e \in UNION { s.data[BUSINESS_INTERACTIONS_KEY(b)] : b \in business_ids } }
        \ {user_id}

\* similarities.sort(key=lambda x: x[1], reverse=True): a stable sort
RECURSIVE InsertDescending(_, _)
InsertDescending(sorted, pair) ==
    IF sorted = <<>> THEN <<pair>>
    ELSE IF Above(pair[2], Head(sorted)[2]) THEN <<pair>> \o sorted
    ELSE <<Head(sorted)>> \o InsertDescending(Tail(sorted), pair)

RECURSIVE SortDescending(_)
SortDescending(pairs) ==
    IF pairs = <<>> THEN <<>>
    ELSE InsertDescending(SortDescending(SubSeq(pairs, 1, Len(pairs) - 1)),
                          pairs[Len(pairs)])

\* the loop of lines 283-287 over the set similar_users, which Python walks
\* in the order `order` (a list of all users)
RECURSIVE Similarities(_, _, _, _, _)
Similarities(s, user_id, similar_users, order, t) ==
    IF order = <<>> THEN <<>>
    ELSE (IF Head(order) \in similar_users
             /\ AboveThreshold(calculate_user_similarity(s, user_id, Head(order), t))
          THEN << <<Head(order), calculate_user_similarity(s, user_id, Head(order), t)>> >>
          ELSE <<>>)
         \o Similarities(s, user_id, similar_users, Tail(order), t)

\* list[:limit] for a limit that is not negative
FirstN(list, limit) == SubSeq(list, 1, Min2(limit, Len(list)))

\* lines 265-291: the list computed from the logs
ComputedSimilarUsers(s, user_id, limit, t, order) ==
    IF Len(get_user_interactions(s, user_id, t)) < min_interactions_for_cf THEN <<>>
    ELSE FirstN(SortDescending(
                    Similarities(s, user_id,
                                 CoVisitors(s, user_id,
                                            BusinessesOf(get_user_interactions(s, user_id, t))),
                                 order, t)),
                limit)

Answer(s, result) == [store |-> s, result |-> result, raised |-> FALSE]
Raise(s) == [store |-> s, result |-> <<>>, raised |-> TRUE]

\* find_similar_users on store s at minute t; fault names the commands the
\* store answers with an error: "get" (260), "zrangebyscore" (224, from 265
\* and 285), "zrange" (275), "setex" (294)
CacheAndReturn(s, user_id, result, t, fault) ==
    IF "setex" \in fault THEN Raise(s)
    ELSE Answer(setex(s, SIMILAR_USERS_KEY(user_id), CacheTtl, result, t), result)

find_similar_users(s, user_id, limit, t, order, fault) ==
    IF "get" \in fault THEN Raise(s)
    ELSE IF ~IsNone(s.data[SIMILAR_USERS_KEY(user_id)])
    THEN Answer(s, The(s.data[SIMILAR_USERS_KEY(user_id)]))
    ELSE IF "zrangebyscore" \in fault THEN Raise(s)
    ELSE IF Len(get_user_interactions(s, user_id, t)) < min_interactions_for_cf
    THEN Answer(s, <<>>)
    ELSE IF "zrange" \in fault THEN Raise(s)
    ELSE CacheAndReturn(s, user_id, ComputedSimilarUsers(s, user_id, limit, t, order),
                        t, fault)

\* lines 318-330: what the similar users' interactions contribute, in the
\* order of the two loops; k is the place of the similar user in the list
\* a mutant of Eligible: the businesses of the requester are not skipped
Eligible_OwnKept(interactions, k, user_businesses, exclude_businesses) ==
    SelectSeq([i \in 1..Len(interactions) |-> [k |-> k, interaction |-> interactions[i]]],
              LAMBDA c : c.interaction.business_id \notin exclude_businesses)

Eligible(interactions, k, user_businesses, exclude_businesses) ==
    SelectSeq([i \in 1..Len(interactions) |-> [k |-> k, interaction |-> interactions[i]]],
              LAMBDA c : /\ c.interaction.business_id \notin user_businesses
                         /\ c.interaction.business_id \notin exclude_businesses)

RECURSIVE Contributions(_, _, _, _, _, _)
Contributions(s, similar_users, k, user_businesses, exclude_businesses, t) ==
    IF k > Len(similar_users) THEN <<>>
    ELSE Eligible(get_user_interactions(s, similar_users[k][1], t), k,
                  user_businesses, exclude_businesses)
         \o Contributions(s, similar_users, k + 1, user_businesses, exclude_businesses, t)

\* the keys of the dictionary `recommendations` in insertion order
RECURSIVE FirstSeen(_, _)
FirstSeen(contributions, seen) ==
    IF contributions = <<>> THEN <<>>
    ELSE IF Head(contributions).interaction.business_id \in seen
    THEN FirstSeen(Tail(contributions), seen)
    ELSE <<Head(contributions).interaction.business_id>>
             \o FirstSeen(Tail(contributions),
                          seen \cup {Head(contributions).interaction.business_id})

\* the ratings that the similarity of the k-th similar user multiplies in
\* recommendations[business_id] (line 333-334)
RECURSIVE WeightOf(_, _, _)
WeightOf(contributions, business_id, k) ==
    IF contributions = <<>> THEN 0
    ELSE (IF Head(contributions).k = k
             /\ Head(contributions).interaction.business_id = business_id
          THEN Head(contributions).interaction.rating ELSE 0)
         + WeightOf(Tail(contributions), business_id, k)

ScoreTerms(contributions, similar_users, business_id) ==
    [k \in 1..Len(similar_users) |->
        [similarity |-> similar_users[k][2],
         weight |-> WeightOf(contributions, business_id, k)]]

\* business_details[business_id]: what the last interaction said (337-341)
DetailsOf(contributions, business_id) ==
    contributions[CHOOSE i \in 1..Len(contributions) :
                     /\ contributions[i].interaction.business_id = business_id
                     /\ \A j \in (i + 1)..Len(contributions) :
                           contributions[j].interaction.business_id # business_id].interaction

\* c1 * sqrt(q1) + c2 * sqrt(q2) > 0 for fractions q1, q2 that are not zero
Positive(q1, c1, q2, c2) ==
    CASE c1 >= 0 /\ c2 >= 0 -> c1 + c2 > 0
      [] c1 <= 0 /\ c2 <= 0 -> FALSE
      [] c1 > 0 /\ c2 < 0 -> c1 * c1 * q1.num * q2.den > c2 * c2 * q2.num * q1.den
      [] c1 < 0 /\ c2 > 0 -> c2 * c2 * q2.num * q1.den > c1 * c1 * q1.num * q2.den

\* score a is greater than score b; with three users a list of similar
\* users has one or two entries
GreaterScore(a, b) ==
    IF Len(a) = 1 THEN a[1].weight > b[1].weight
    ELSE Positive(a[1].similarity, a[1].weight - b[1].weight,
                  a[2].similarity, a[2].weight - b[2].weight)

\* sorted(recommendations.items(), key=lambda x: x[1], reverse=True)
RECURSIVE InsertRecommendation(_, _)
InsertRecommendation(sorted, item) ==
    IF sorted = <<>> THEN <<item>>
    ELSE IF GreaterScore(item.recommendation_score, Head(sorted).recommendation_score)
    THEN <<item>> \o sorted
    ELSE <<Head(sorted)>> \o InsertRecommendation(Tail(sorted), item)

RECURSIVE SortRecommendations(_)
SortRecommendations(items) ==
    IF items = <<>> THEN <<>>
    ELSE InsertRecommendation(SortRecommendations(SubSeq(items, 1, Len(items) - 1)),
                              items[Len(items)])

\* lines 346-356: one result
Recommendation(contributions, similar_users, business_id) ==
    [business_name |-> DetailsOf(contributions, business_id).business_name,
     category |-> DetailsOf(contributions, business_id).category,
     tags |-> DetailsOf(contributions, business_id).tags,
     business_id |-> business_id,
     recommendation_score |-> ScoreTerms(contributions, similar_users, business_id),
     recommendation_type |-> "collaborative_filtering"]

Recommendations(contributions, similar_users, business_ids, limit) ==
    FirstN(SortRecommendations([i \in 1..Len(business_ids) |->
                                   Recommendation(contributions, similar_users,
                                                  business_ids[i])]),
           limit)

\* lines 314-358 with the list of similar users at hand
RecommendFrom(s, similar_users, limit, contributions) ==
    Answer(s, Recommendations(contributions, similar_users,
                              FirstSeen(contributions, {}), limit))

\* lines 307-309 and the reads of lines 311 and 319 ("reread" in fault:
\* the store fails one of them)
AfterSimilarUsers(found, user_id, exclude_businesses, limit, t, fault) ==
    IF found.raised THEN found
    ELSE IF found.result = <<>> THEN Answer(found.store, <<>>)
    ELSE IF "reread" \in fault THEN Raise(found.store)
    ELSE RecommendFrom(found.store, found.result, limit,
                       Contributions(found.store, found.result, 1,
                                     BusinessesOf(get_user_interactions(found.store,
                                                                        user_id, t)),
                                     exclude_businesses, t))

\* get_collaborative_recommendations of the engine: the full engine
\* computes, the simple engine answers [] whatever happens
WithEngine(engine, answer) ==
    [engine |-> engine, store |-> answer.store, result |-> answer.result,
     raised |-> answer.raised]

get_collaborative_recommendations(engine, s, user_id, exclude_businesses, limit, t, order, fault) ==
    IF engine.module = "simple"
    THEN WithEngine(IF engine.enabled THEN connect(engine, fault) ELSE engine,
                    Answer(s, <<>>))
    ELSE WithEngine(connect(engine, fault),
                    AfterSimilarUsers(find_similar_users(s, user_id, SimilarUsersLimit,
                                                         t, order, fault),
                                      user_id, exclude_businesses, limit, t, fault))

(***************************************************************************)
(* Part V as a state machine                                               *)
(***************************************************************************)
\* Scenario C and a third user: u1 rated b1 5.0, b2 3.0, b3 2.0; u2 rated
\* b1 4.0, b2 2.0, b4 3.0; u3 rated b2 2.0, b3 5.0
Neighbours(engine) ==
    Replay(FreshRun(engine),
           << TrackedEvent("u1", "b1", "bookmark", None, None),
              TrackedEvent("u2", "b1", "share", None, None),
              TrackedEvent("u1", "b2", "click", Some(10), None),
              TrackedEvent("u2", "b2", "view", None, None),
              TrackedEvent("u3", "b2", "view", Some(20), None),
              TrackedEvent("u1", "b3", "view", None, None),
              TrackedEvent("u3", "b3", "bookmark", None, None),
              TrackedEvent("u2", "b4", "click", None, None) >>)

RecommenderScenarios ==
    { Neighbours(NewEngine("full", TRUE)), Neighbours(NewEngine("simple", TRUE)),
      FreshRun(NewEngine("full", TRUE)) }

RecommenderInit ==
    /\ record_in = None
    /\ parsedAs = [f \in Formats |-> None]
    /\ fragment = None
    /\ parsed = None
    /\ request = None
    /\ retrieved = None
    /\ out = None
    /\ prev = None
    /\ rated = None
    /\ call = None
    /\ \E run \in RecommenderScenarios :
          /\ now = run.now
          /\ cf = Some(run.engine)
          /\ store = Some(run.store)
          /\ asked = Some([queries |-> run.queries, seen |-> run.seen,
                            clean |-> TRUE, calls |-> 0, reads |-> 0, ticks |-> 0])

\* the interactions that arrive later
RecommenderEvents ==
    { TrackedEvent("u3", "b5", "click", None, None),
      TrackedEvent("u2", "b1", "view", None, None) }

\* three quarters of an hour
RecommenderTicks == {45}

\* the orders in which Python may walk a set of users
SetOrders == { <<"u1", "u2", "u3">>, <<"u3", "u2", "u1">> }

\* the limits a caller of find_similar_users passes: one, the default
Limits == {1, 10}

ReadFaults == {{}, {"get"}, {"zrangebyscore"}, {"zrange"}, {"setex"}, {"reread"}, {"ping"}}

\* what the environment chooses in a call that reads: how Python walks the
\* sets and which command fails
ReadChoices ==
    { [order |-> <<"u1", "u2", "u3">>, fault |-> f] : f \in ReadFaults }
        \cup { [order |-> o, fault |-> {}] : o \in SetOrders }

\* exclude_businesses and limit of a request for recommendations
RecommendationArgs ==
    { [exclude_businesses |-> {}, limit |-> 10],
      [exclude_businesses |-> {"b4"}, limit |-> 10],
      [exclude_businesses |-> {}, limit |-> 1] }

\* the outcome r of a call that reads becomes the state; which command
\* failed and how Python walked its sets is not part of the call
ReadStep(op, args, r) ==
    /\ store' = Some(r.store)
    /\ call' = Some([op |-> op,
                     args |-> args,
                     before |-> The(store),
                     failed |-> r.raised,
                     raised |-> r.raised,
                     result |-> r.result])
    /\ asked' = Some([The(asked) EXCEPT !.reads = @ + 1])
    /\ UNCHANGED <<rated, now>>
    /\ UNCHANGED parseVars
    /\ UNCHANGED searchVars

CalculateUserSimilarity ==
    /\ ~IsNone(store)
    /\ The(asked).reads < MaxReads
    /\ The(cf).module = "full"
    /\ \E user1_id \in Users, user2_id \in Users :
          /\ cf' = Some(connect(The(cf), {}))
          /\ ReadStep("calculate_user_similarity",
                      [user1_id |-> user1_id, user2_id |-> user2_id],
                      Answer(The(store),
                             calculate_user_similarity(The(store), user1_id, user2_id, now)))

FindSimilarUsers ==
    /\ ~IsNone(store)
    /\ The(asked).reads < MaxReads
    /\ The(cf).module = "full"
    /\ \E user_id \in Users, limit \in Limits, c \in ReadChoices :
          /\ cf' = Some(connect(The(cf), c.fault))
          /\ ReadStep("find_similar_users", [user_id |-> user_id, limit |-> limit],
                      find_similar_users(The(store), user_id, limit, now, c.order, c.fault))

RecommendStep(args, r) ==
    /\ cf' = Some(r.engine)
    /\ ReadStep("get_collaborative_recommendations", args, r)

GetCollaborativeRecommendations ==
    /\ ~IsNone(store)
    /\ The(asked).reads < MaxReads
    /\ \E user_id \in Users, a \in RecommendationArgs, c \in ReadChoices :
          RecommendStep([user_id |-> user_id,
                         exclude_businesses |-> a.exclude_businesses,
                         limit |-> a.limit],
                        get_collaborative_recommendations(The(cf), The(store), user_id,
                                                          a.exclude_businesses, a.limit,
                                                          now, c.order, c.fault))

RecommenderNext ==
    \/ RecordInteraction(RecommenderEvents, {{}})
    \/ \E minutes \in RecommenderTicks : Tick(minutes)
    \/ FindSimilarUsers
    \/ GetCollaborativeRecommendations

SpecRecommender == RecommenderInit /\ [][RecommenderNext]_vars

\* similarities alone, over minutes and over weeks: with steps of twenty
\* days a log that is still written to holds entries older than 30 days
SimilarityTicks == RecommenderTicks \cup LedgerTicks

SimilarityNext ==
    \/ RecordInteraction(RecommenderEvents, {{}})
    \/ \E minutes \in SimilarityTicks : Tick(minutes)
    \/ CalculateUserSimilarity

SpecSimilarity == RecommenderInit /\ [][SimilarityNext]_vars

\* the last call was op
Called(op) == ~IsNone(call) /\ The(call).op = op

(***************************************************************************)
(* Properties of the recommender                                           *)
(***************************************************************************)
\* the entries of a user's log of the last 30 days, and the businesses in
\* them
WindowOf(user_id) ==
    { e \in The(store).data[USER_INTERACTIONS_KEY(user_id)] : e.score >= now - Retention }
RatedBy(user_id) == { e.member.business_id : e \in WindowOf(user_id) }

\* the rating a user gave a business: that of the latest entry, in halves
LatestRating(user_id, business_id) ==
    (CHOOSE e \in WindowOf(user_id) :
        /\ e.member.business_id = business_id
        /\ \A o \in WindowOf(user_id) :
              o.member.business_id = business_id => o.score <= e.score).member.rating \div 5

RECURSIVE SumOfProducts(_, _, _)
SumOfProducts(u, v, ids) ==
    IF ids = {} THEN 0
    ELSE LatestRating(u, CHOOSE b \in ids : TRUE) * LatestRating(v, CHOOSE b \in ids : TRUE)
         + SumOfProducts(u, v, ids \ {CHOOSE b \in ids : TRUE})

\* the fraction q is the square of the cosine of the rating vectors of u
\* and v over the business ids `ids`, and is between 0 and 1
IsSquaredCosine(q, u, v, ids) ==
    /\ q.den > 0
    /\ 0 <= q.num
    /\ q.num <= q.den
    /\ q.num * (SumOfProducts(u, u, ids) * SumOfProducts(v, v, ids))
           = q.den * (SumOfProducts(u, v, ids) * SumOfProducts(u, v, ids))

C16_WitnessOneCommon ==
    /\ Called("calculate_user_similarity")
    /\ Cardinality(RatedBy(The(call).args.user1_id)
                       \cap RatedBy(The(call).args.user2_id)) = 1
    /\ The(call).result = ZeroSimilarity

\* the similarities of a list of pairs never go up
Descending(pairs) ==
    \A i, j \in 1..Len(pairs) : i < j => ~Above(pairs[j][2], pairs[i][2])

\* C17: every call find_similar_users(user_id, limit) returns at most
\* `limit` pairs, in descending order of score, computed or from the
\* cache, whatever calls came before.
C17_AtMostLimitDescending ==
    (Called("find_similar_users") /\ ~The(call).raised) =>
        /\ Len(The(call).result) <= The(call).args.limit
        /\ Descending(The(call).result)

\* the part of C17 that holds: the order
C17_AlwaysDescending ==
    (Called("find_similar_users") /\ ~The(call).raised) => Descending(The(call).result)

\* C18: a cached list of similar users never differs from what would be
\* computed from the interaction logs as they are now (for one of the
\* limits in use and one of the orders Python may walk its set in).
C18_CacheIsCurrent ==
    ~IsNone(store) =>
        \A u \in Users :
            ~IsNone(The(store).data[SIMILAR_USERS_KEY(u)]) =>
                \E limit \in Limits \cup {SimilarUsersLimit}, order \in SetOrders :
                    The(The(store).data[SIMILAR_USERS_KEY(u)])
                        = ComputedSimilarUsers(The(store), u, limit, now, order)

\* the requester of the last call interacted with the business less than
\* 30 days ago
Touched(business_id) ==
    \E x \in The(asked).seen :
        /\ x.user_id = The(call).args.user_id
        /\ x.business_id = business_id
        /\ now - x.at < Retention

\* C19: no business returned by get_collaborative_recommendations is one
\* the requester interacted with in the last 30 days, and none is in
\* exclude_businesses.
C19_NothingTouchedOrExcluded ==
    (Called("get_collaborative_recommendations") /\ ~The(call).raised) =>
        \A i \in 1..Len(The(call).result) :
            /\ ~Touched(The(call).result[i].business_id)
            /\ The(call).result[i].business_id \notin The(call).args.exclude_businesses

\* C19: u1 asks with b4 excluded; the similar users rated b1, b2, b3 (as
\* u1 did), b4 and b5, and b5 alone is recommended
C19_Witness ==
    /\ Called("get_collaborative_recommendations")
    /\ ~The(call).raised
    /\ The(call).args.user_id = "u1"
    /\ The(call).args.exclude_businesses = {"b4"}
    /\ Touched("b1") /\ Touched("b2") /\ Touched("b3")
    /\ \E x \in The(asked).seen : x.user_id = "u2" /\ x.business_id = "b4"
    /\ Len(The(call).result) = 1
    /\ The(call).result[1].business_id = "b5"

\* C20: a store error at any stage of get_collaborative_recommendations
\* gives an empty list; no exception reaches the caller.
C20_ErrorsGiveEmptyList ==
    Called("get_collaborative_recommendations") =>
        /\ ~The(call).raised
        /\ The(call).failed => The(call).result = <<>>

\* C16: an entry older than 30 days is still in the log of the first user
\* and does not count
C16_WitnessOldEntry ==
    /\ Called("calculate_user_similarity")
    /\ \E e \in The(store).data[USER_INTERACTIONS_KEY(The(call).args.user1_id)] :
          /\ e.score < now - Retention
          /\ e.member.business_id \notin RatedBy(The(call).args.user1_id)
    /\ The(call).result = ZeroSimilarity

(***************************************************************************)
(* The recommender over a month: the logs of Scenario C age out of the     *)
(* 30-day window while a cached list of similar users is still alive       *)
(***************************************************************************)
\* seven minutes short of 30 days, and six minutes
AgeingTicks == {Retention - 7, 6}

AgeingNext ==
    \/ RecordInteraction(RecommenderEvents, {{}})
    \/ \E minutes \in AgeingTicks : Tick(minutes)
    \/ FindSimilarUsers
    \/ GetCollaborativeRecommendations

SpecAgeing == RecommenderInit /\ [][AgeingNext]_vars

\* what get_user_interactions gave for the user when the last call began
LogBefore(user_id) == get_user_interactions(The(call).before, user_id, now)

\* C21: for a user whose interaction log is empty,
\* get_collaborative_recommendations returns an empty list (in a call in
\* which the store answers every command), whatever else the store holds:
\* logs of other users, logs of businesses, cached lists of similar users.
C21_EmptyLogGivesEmptyList ==
    (/\ Called("get_collaborative_recommendations")
     /\ ~The(call).failed
     /\ LogBefore(The(call).args.user_id) = <<>>)
        => The(call).result = <<>>

\* the part of C21 that holds: with no cached list for the user, an empty
\* log gives an empty list
C21_EmptyLogNoCache ==
    (/\ Called("get_collaborative_recommendations")
     /\ ~The(call).failed
     /\ LogBefore(The(call).args.user_id) = <<>>
     /\ IsNone(The(call).before.data[SIMILAR_USERS_KEY(The(call).args.user_id)]))
        => The(call).result = <<>>

\* C21: a user with an empty log and no cached list asked, other users'
\* logs being there
C21_WitnessNoCache ==
    /\ Called("get_collaborative_recommendations")
    /\ The(cf).module = "full"
    /\ ~The(call).failed
    /\ LogBefore(The(call).args.user_id) = <<>>
    /\ IsNone(The(call).before.data[SIMILAR_USERS_KEY(The(call).args.user_id)])
    /\ \E u \in Users : LogBefore(u) # <<>>
    /\ The(call).result = <<>>

(***************************************************************************)
(* Searches among the interactions: /search records every query as an      *)
(* interaction with the business id "search_query" (upload_api.py 683-700) *)
(***************************************************************************)
SentinelEvents ==
    { SearchEvent(u, Query(1)) : u \in Users }
        \cup { TrackedEvent("u3", "b5", "click", None, None) }

SentinelNext ==
    \/ RecordInteraction(SentinelEvents, {{}})
    \/ CalculateUserSimilarity
    \/ GetCollaborativeRecommendations

SpecSentinel == RecommenderInit /\ [][SentinelNext]_vars

\* the interactions with businesses: those of searches left out
WithoutSearches(interactions) ==
    SelectSeq(interactions, LAMBDA x : x.business_id # "search_query")

\* C26: the business id "search_query" of a search event is never treated
\* as a business: get_collaborative_recommendations never returns it, and
\* calculate_user_similarity never counts it among the common businesses
\* (its result is that of the logs without the searches).
C26_SentinelIsNoBusiness ==
    /\ (Called("get_collaborative_recommendations") /\ ~The(call).raised) =>
          \A i \in 1..Len(The(call).result) :
              The(call).result[i].business_id # "search_query"
    /\ Called("calculate_user_similarity") =>
          The(call).result
              = SimilarityOf(WithoutSearches(LogBefore(The(call).args.user1_id)),
                             WithoutSearches(LogBefore(The(call).args.user2_id)))

\* C26, the second half alone: the similarity is that of the logs without
\* the searches
C26_SimilarityWithoutSearches ==
    Called("calculate_user_similarity") =>
        The(call).result
            = SimilarityOf(WithoutSearches(LogBefore(The(call).args.user1_id)),
                           WithoutSearches(LogBefore(The(call).args.user2_id)))

\* C27: the resolved weights always satisfy 0 <= relevance_weight <= 1,
\* 0 <= distance_weight <= 1 and relevance_weight + distance_weight = 1,
\* for every sort_mode (unrecognised strings too) and every distance_weight
\* (below 0 and above 1 too).
C27_WeightsAreConvex ==
    Ranked =>
        /\ The(out).weights.rel_w \in 0..10
        /\ The(out).weights.dist_w \in 0..10
        /\ The(out).weights.rel_w + The(out).weights.dist_w = 10

\* the part of C27 that holds: every distance_weight that is a number
C27_NumbersGiveConvexWeights ==
    (Ranked /\ The(request).distance_weight # Some(NaN)) =>
        /\ The(out).weights.rel_w \in 0..10
        /\ The(out).weights.dist_w \in 0..10
        /\ The(out).weights.rel_w + The(out).weights.dist_w = 10

\* C27: a distance_weight of 1.5 under an unrecognised sort_mode is clamped
\* to (0, 1), one of -0.5 to (1, 0)
C27_WitnessClamped ==
    /\ Ranked
    /\ The(request).sort_mode = Some("nearest")
    /\ \/ The(request).distance_weight = Some(15) /\ The(out).weights = Weights(0, 10)
       \/ The(request).distance_weight = Some(-5) /\ The(out).weights = Weights(10, 0)

(***************************************************************************)
(* The endpoint /search-businesses (upload_api.py 657-736) around          *)
(* search_businesses_vectorized: what it answers for the outcome o of the  *)
(* call.  Recording the search and asking for recommendations are each in  *)
(* a try of their own and never change the status.                         *)
(***************************************************************************)
SearchReply(status_code, ok, results, search_method) ==
    [status_code |-> status_code, ok |-> ok, results |-> results,
     total_found |-> Len(results), search_method |-> search_method]

search_businesses(req, o) ==
    IF ~validate_coordinates(req.user_lat, req.user_lng)
    THEN SearchReply(400, FALSE, <<>>, "")
    ELSE SearchReply(200, TRUE, o.results, o.method)

\* C24: when the retrieval backend fails (timeout, connection error or a
\* status other than 200), the search request propagates an error instead
\* of answering successfully with an empty list of results.
C24_RetrievalFailurePropagates ==
    (~IsNone(out) /\ The(retrieved).status # "200") =>
        ~search_businesses(The(request), The(out)).ok

\* what holds instead: the failure is reported in search_method alone
C24_FailureIsALabel ==
    (~IsNone(out) /\ The(retrieved).status # "200" /\ ~QueryRaises(The(request))) =>
        search_businesses(The(request), The(out))
            = SearchReply(200, TRUE, <<>>, "vectorized_error")

(***************************************************************************)
(* The simple engine of src/collaborative_filtering_simple.py behind the   *)
(* endpoints: interactions are recorded, recommendations and trending      *)
(* searches are asked for, and the store may be unreachable for a call     *)
(***************************************************************************)
\* the queries of the model in the order of their bytes
LexOrder == << Query(1), Query(2), Query(PatternCap + 1) >>
LexRank(q) == CHOOSE i \in 1..Len(LexOrder) : LexOrder[i] = q

\* zrevrange(key, 0, -1, withscores=True): highest score first, equal
\* scores in reverse order of the members
RECURSIVE zrevrange(_)
zrevrangeFrom(z, top) == << <<top.member, top.score>> >> \o zrevrange(z \ {top})
zrevrange(z) ==
    IF z = {} THEN <<>>
    ELSE zrevrangeFrom(z, CHOOSE e \in z : \A o \in z \ {e} :
                              \/ e.score > o.score
                              \/ e.score = o.score /\ LexRank(e.member) > LexRank(o.member))

\* a mutant of get_trending_searches: the engine is not asked whether it is
\* enabled
get_trending_searches_NoEnabledCheck(engine, s, limit, fault) ==
    IF "zrevrange" \in fault
    THEN WithEngine(connect(engine, fault), Answer(s, <<>>))
    ELSE WithEngine(connect(engine, fault),
                    Answer(s, FirstN(zrevrange(s.data[POPULAR_SEARCHES_KEY]), limit)))

\* get_trending_searches (lines 236-251): a failed command is logged and
\* answered with [].  The module has no engine without a client class, so
\* after connect the client is set.
get_trending_searches(engine, s, limit, fault) ==
    IF ~engine.enabled THEN WithEngine(engine, Answer(s, <<>>))
    ELSE IF "zrevrange" \in fault
    THEN WithEngine(connect(engine, fault), Answer(s, <<>>))
    ELSE WithEngine(connect(engine, fault),
                    Answer(s, FirstN(zrevrange(s.data[POPULAR_SEARCHES_KEY]), limit)))

\* u1 and u2 have searched
Searched(engine) ==
    Replay(FreshRun(engine),
           << SearchEvent("u1", Query(1)), SearchEvent("u2", Query(1)),
              SearchEvent("u1", Query(2)) >>)

SimpleScenarios ==
    { FreshRun(NewEngine("simple", TRUE)), FreshRun(NewEngine("simple", FALSE)),
      Searched(NewEngine("simple", TRUE)) }

SimpleInit ==
    /\ record_in = None
    /\ parsedAs = [f \in Formats |-> None]
    /\ fragment = None
    /\ parsed = None
    /\ request = None
    /\ retrieved = None
    /\ out = None
    /\ prev = None
    /\ rated = None
    /\ call = None
    /\ \E run \in SimpleScenarios :
          /\ now = run.now
          /\ cf = Some(run.engine)
          /\ store = Some(run.store)
          /\ asked = Some([queries |-> run.queries, seen |-> run.seen,
                            clean |-> TRUE, calls |-> 0, reads |-> 0, ticks |-> 0])

SimpleEvents ==
    { SearchEvent("u1", Query(1)), SearchEvent("u2", Query(2)),
      TrackedEvent("u1", "b1", "view", None, None) }

\* the store answers, does not answer the ping, fails the first command
SimpleFaults == { {}, {"ping"}, {"zadd_user"} }
TrendingFaults == { {}, {"ping"}, {"zrevrange"} }

TrendingStep(args, r) ==
    /\ cf' = Some(r.engine)
    /\ ReadStep("get_trending_searches", args, r)

GetTrendingSearches ==
    /\ ~IsNone(store)
    /\ The(asked).reads < MaxReads
    /\ The(cf).module = "simple"
    /\ \E limit \in Limits, fault \in TrendingFaults :
          TrendingStep([limit |-> limit],
                       get_trending_searches(The(cf), The(store), limit, fault))

SimpleNext ==
    \/ RecordInteraction(SimpleEvents, SimpleFaults)
    \/ \E minutes \in RecommenderTicks : Tick(minutes)
    \/ GetCollaborativeRecommendations
    \/ GetTrendingSearches

SpecSimple == SimpleInit /\ [][SimpleNext]_vars

\* C30: in the simple engine, once connect() has failed the engine stays
\* disabled: enabled never goes back to True, and every later
\* record_interaction, get_collaborative_recommendations and
\* get_trending_searches performs no store operation and returns its empty
\* default, also when the store is reachable again.
C30_DisabledForGood ==
    [][(The(cf).module = "simple" /\ ~The(cf).enabled) =>
          /\ ~The(cf').enabled
          /\ ~IsNone(call') =>
                /\ The(store') = The(call').before
                /\ The(call').result = <<>>
                /\ ~The(call').raised]_vars

\* C30: the ping of connect failed in an earlier call (the client is set,
\* the engine disabled); in this call the store would have answered, and
\* the call did nothing to a store that holds searches
C30_Witness ==
    /\ ~IsNone(call)
    /\ The(cf).module = "simple"
    /\ The(cf).redis_client
    /\ ~The(cf).enabled
    /\ The(call).op = "get_trending_searches"
    /\ The(store).data[POPULAR_SEARCHES_KEY] # {}
    /\ The(store) = The(call).before
    /\ The(call).result = <<>>

(***************************************************************************)
(* Two record_interaction calls of the full engine at once.  Every await   *)
(* of a store command is a point where the event loop may run the other    *)
(* call, so the calls advance command by command in any order.  `call`     *)
(* holds the two tasks: the interaction, its timestamp, the commands still *)
(* to send and the local prefs_data of _update_user_preferences.           *)
(***************************************************************************)
Task(interaction, t) ==
    [interaction |-> interaction, t |-> t,
     commands |-> CommandsOf(NewEngine("full", TRUE), interaction),
     prefs_data |-> None]

ConcurrentEvents ==
    { TrackedEvent("u1", "b1", "view", None, None),
      TrackedEvent("u1", "b1", "bookmark", None, None),
      TrackedEvent("u1", "b2", "click", None, Some(Query(1))),
      TrackedEvent("u2", "b1", "share", None, None) }

ConcurrentScenarios ==
    { FreshRun(NewEngine("full", TRUE)), Neighbours(NewEngine("full", TRUE)) }

ConcurrentInit ==
    /\ record_in = None
    /\ parsedAs = [f \in Formats |-> None]
    /\ fragment = None
    /\ parsed = None
    /\ request = None
    /\ retrieved = None
    /\ out = None
    /\ prev = None
    /\ rated = None
    /\ \E run \in ConcurrentScenarios, a \in ConcurrentEvents, b \in ConcurrentEvents :
          /\ now = run.now + 2
          /\ cf = Some(run.engine)
          /\ store = Some(run.store)
          /\ call = Some([op |-> "gather",
                          before |-> run.store,
                          tasks |-> << Task(a, run.now + 1), Task(b, run.now + 2) >>,
                          overlapped |-> FALSE])
          /\ asked = Some([queries |-> run.queries, seen |-> run.seen,
                            clean |-> TRUE, calls |-> 0, reads |-> 0, ticks |-> 0])

\* task k reads the preferences while the other task, for the same user,
\* has read them and not yet written them back
Overlaps(k) ==
    /\ Head(The(call).tasks[k].commands) = "get_prefs"
    /\ The(call).tasks[3 - k].commands = <<"setex_prefs">>
    /\ The(call).tasks[3 - k].interaction.user_id = The(call).tasks[k].interaction.user_id

\* the running call m of task k after its next command
TaskStep(k, m) ==
    /\ store' = Some(m.store)
    /\ call' = Some([The(call) EXCEPT
                        !.tasks[k] = [@ EXCEPT !.commands = Tail(@),
                                               !.prefs_data = m.prefs_data],
                        !.overlapped = @ \/ Overlaps(k)])
    /\ cf' = Some(connect(The(cf), {}))
    /\ UNCHANGED <<rated, now, asked>>
    /\ UNCHANGED parseVars
    /\ UNCHANGED searchVars

\* the event loop resumes task k until its next await
Resume(k) ==
    /\ ~IsNone(call)
    /\ The(call).tasks[k].commands # <<>>
    /\ TaskStep(k, Exec([store |-> The(store),
                         prefs_data |-> The(call).tasks[k].prefs_data,
                         failed |-> FALSE],
                        Head(The(call).tasks[k].commands),
                        The(call).tasks[k].interaction, The(call).tasks[k].t))

ConcurrentNext == \E k \in 1..2 : Resume(k)

SpecConcurrent == ConcurrentInit /\ [][ConcurrentNext]_vars

\* both calls have returned
BothDone == \A k \in 1..2 : The(call).tasks[k].commands = <<>>

\* the preferences of a user in store s, those of a new user when there
\* are none
PreferencesIn(s, user_id) ==
    IF IsNone(s.data[USER_PREFERENCES_KEY(user_id)]) THEN NewPreferences(user_id, 0)
    ELSE The(s.data[USER_PREFERENCES_KEY(user_id)])

\* the rating task k adds to a category or to a tag of a user
CategoryRating(k, user_id, c) ==
    IF The(call).tasks[k].interaction.user_id = user_id
           /\ The(call).tasks[k].interaction.category = Some(c)
    THEN The(call).tasks[k].interaction.implicit_rating ELSE 0

TagRating(k, user_id, g) ==
    IF The(call).tasks[k].interaction.user_id = user_id
           /\ InSeq(g, The(call).tasks[k].interaction.tags)
    THEN The(call).tasks[k].interaction.implicit_rating ELSE 0

\* every weight is what it was before the two calls plus the ratings of
\* the two interactions that carry the category or the tag
ContributionsKept ==
    \A u \in Users :
        /\ \A c \in Categories :
              PreferencesIn(The(store), u).preferred_categories[c]
                  = PreferencesIn(The(call).before, u).preferred_categories[c]
                        + CategoryRating(1, u, c) + CategoryRating(2, u, c)
        /\ \A g \in Tags :
              PreferencesIn(The(store), u).preferred_tags[g]
                  = PreferencesIn(The(call).before, u).preferred_tags[g]
                        + TagRating(1, u, g) + TagRating(2, u, g)

\* C25: when two record_interaction calls for the same user run
\* concurrently, both contributions to the preferences are kept: after both
\* have completed, each category weight and each tag weight is the sum of
\* the implicit ratings of all recorded interactions with that category or
\* tag.
C25_BothContributionsKept == BothDone => ContributionsKept

\* what holds: the sum is right when neither call read the preferences
\* between the other's read and write (calls one after the other, calls of
\* different users)
C25_KeptWithoutOverlap == (BothDone /\ ~The(call).overlapped) => ContributionsKept

(***************************************************************************)
(* Part VI: the contextual adjuster of src/contextual_recommendations.py.  *)
(* Multipliers, weights and scores are exact fractions in lowest terms     *)
(* ([num, den], as the similarities of Part V); a distance_km is a number  *)
(* of hundredths and a vector_score a number of tenths.  The reason of a   *)
(* factor is modelled by its factor_type.                                  *)
(***************************************************************************)
\* self.time_preferences (lines 58-104): per time of day the boosted
\* categories with their multipliers, in tenths, and the categories to
\* avoid ("preferred" is read by no code)
time_preferences(time_of_day) ==
    CASE time_of_day = "early_morning" ->
           [boosted |-> << <<"coffee shop", 20>>, <<"bakery", 18>>, <<"gym", 15>>,
                           <<"breakfast restaurant", 17>> >>,
            avoid |-> << "bar", "nightclub", "late night food" >>]
      [] time_of_day = "morning" ->
           [boosted |-> << <<"coffee shop", 18>>, <<"business services", 15>>,
                           <<"breakfast restaurant", 15>> >>,
            avoid |-> << "bar", "nightclub", "dinner restaurant" >>]
      [] time_of_day = "late_morning" ->
           [boosted |-> << <<"shopping mall", 13>>, <<"brunch restaurant", 16>> >>,
            avoid |-> << "bar", "nightclub" >>]
      [] time_of_day = "lunch" ->
           [boosted |-> << <<"restaurant", 18>>, <<"fast food", 16>>, <<"cafe", 14>>,
                           <<"lunch specials", 20>> >>,
            avoid |-> << "breakfast restaurant", "late night food" >>]
      [] time_of_day = "afternoon" ->
           [boosted |-> << <<"shopping mall", 14>>, <<"retail", 13>>,
                           <<"coffee shop", 12>> >>,
            avoid |-> << "bar", "nightclub", "breakfast restaurant" >>]
      [] time_of_day = "early_evening" ->
           [boosted |-> << <<"restaurant", 16>>, <<"grocery store", 14>>,
                           <<"happy hour", 18>> >>,
            avoid |-> << "breakfast restaurant", "late night food" >>]
      [] time_of_day = "evening" ->
           [boosted |-> << <<"restaurant", 17>>, <<"entertainment", 15>>, <<"bar", 14>>,
                           <<"cinema", 16>> >>,
            avoid |-> << "breakfast restaurant", "business services" >>]
      [] time_of_day = "night" ->
           [boosted |-> << <<"bar", 18>>, <<"entertainment", 16>>,
                           <<"late night food", 17>> >>,
            avoid |-> << "breakfast restaurant", "business services", "office supply" >>]
      [] time_of_day = "late_night" ->
           [boosted |-> << <<"24hr service", 20>>, <<"late night food", 18>>,
                           <<"convenience store", 16>> >>,
            avoid |-> << "business services", "retail", "shopping mall" >>]

\* self.day_preferences (lines 106-115): the boosted categories of a day
day_preferences(day_name) ==
    CASE day_name = "monday" ->
           << <<"coffee shop", 13>>, <<"business services", 12>> >>
      [] day_name = "tuesday" ->
           << <<"restaurant", 11>>, <<"services", 11>> >>
      [] day_name = "wednesday" ->
           << <<"coffee shop", 12>>, <<"lunch specials", 13>> >>
      [] day_name = "thursday" ->
           << <<"restaurant", 12>>, <<"happy hour", 14>> >>
      [] day_name = "friday" ->
           << <<"restaurant", 14>>, <<"bar", 15>>, <<"entertainment", 13>> >>
      [] day_name = "saturday" ->
           << <<"restaurant", 13>>, <<"entertainment", 14>>, <<"shopping mall", 12>>,
              <<"recreational", 13>> >>
      [] day_name = "sunday" ->
           << <<"brunch restaurant", 16>>, <<"recreational", 12>>,
              <<"family entertainment", 13>> >>

\* the lists of get_weather_business_suggestions (weather_service.py
\* 303-350), by the branch that adds them
WeatherLists(branch) ==
    CASE branch = "rainy" ->
           [preferred |-> << "shopping mall", "indoor restaurant", "cinema",
                             "cafe with covered seating", "bookstore", "library", "gym",
                             "indoor entertainment", "covered parking", "museum",
                             "arcade", "indoor sports" >>,
            avoid |-> << "outdoor market", "park", "outdoor sports", "beach",
                         "outdoor dining", "golf course", "outdoor events",
                         "hiking trails", "outdoor festivals" >>]
      [] branch = "hot" ->
           [preferred |-> << "air conditioned restaurant", "shopping mall",
                             "ice cream shop", "pool", "beach", "water sports",
                             "indoor cafe", "cold drinks", "frozen yogurt",
                             "movie theater", "aquarium", "water park" >>,
            avoid |-> << "outdoor market", "hot food", "sauna",
                         "outdoor sports during midday", "hiking", "non-AC venues",
                         "heavy meals" >>]
      [] branch = "cold" ->
           [preferred |-> << "coffee shop", "warm restaurant", "indoor dining",
                             "heated venues", "hot food", "warm clothing store",
                             "indoor activities", "soup restaurant", "spa",
                             "indoor markets", "cozy cafes" >>,
            avoid |-> << "ice cream", "cold drinks", "outdoor dining", "swimming",
                         "water activities", "outdoor seating", "cold food" >>]
      [] branch = "pleasant" ->
           [preferred |-> << "outdoor dining", "park", "outdoor market", "sports venue",
                             "outdoor events", "walking trails", "outdoor cafe",
                             "recreational activities", "farmers market",
                             "outdoor concerts", "picnic areas" >>,
            avoid |-> <<>>]
      [] branch = "sunny" ->
           [preferred |-> << "sunglasses shop", "outdoor gear", "beach accessories",
                             "sunscreen" >>,
            avoid |-> <<>>]
      [] branch = "fog" ->
           [preferred |-> << "indoor venues", "coffee shop", "bookstore" >>,
            avoid |-> << "scenic viewpoints", "outdoor photography", "driving tours" >>]
      [] branch = "snow" ->
           [preferred |-> << "winter sports", "ski shop", "warm clothing",
                             "hot chocolate" >>,
            avoid |-> << "outdoor markets", "beach activities", "cold drinks" >>]
      [] OTHER -> [preferred |-> <<>>, avoid |-> <<>>]


\* get_time_of_day (lines 117-138)
get_time_of_day(hour) ==
    IF 5 <= hour /\ hour < 8 THEN "early_morning"
    ELSE IF 8 <= hour /\ hour < 11 THEN "morning"
    ELSE IF 11 <= hour /\ hour < 12 THEN "late_morning"
    ELSE IF 12 <= hour /\ hour < 14 THEN "lunch"
    ELSE IF 14 <= hour /\ hour < 17 THEN "afternoon"
    ELSE IF 17 <= hour /\ hour < 19 THEN "early_evening"
    ELSE IF 19 <= hour /\ hour < 21 THEN "evening"
    ELSE IF 21 <= hour /\ hour < 24 THEN "night"
    ELSE "late_night"

Tenths(n) == Fraction(n, 10)
One == [num |-> 1, den |-> 1]
Times(a, b) == Fraction(a.num * b.num, a.den * b.den)
DividedBy(a, b) == Fraction(a.num * b.den, a.den * b.num)
\* a < b for fractions that are not negative, compared crosswise after the
\* common divisors gn of the numerators and gd of the denominators are taken
\* out, which keeps the products small
CrossLess(a, b, gn, gd) ==
    (a.num \div gn) * (b.den \div gd) < (b.num \div gn) * (a.den \div gd)

LessThan(a, b) == CrossLess(a, b, Max2(1, Gcd(a.num, b.num)), Gcd(a.den, b.den))

\* a dictionary category -> multiplier is the list of its items in insertion
\* order; dict[key] = value keeps the place of a key that is there
SetItem(entries, key, value) ==
    IF \E i \in 1..Len(entries) : entries[i][1] = key
    THEN [i \in 1..Len(entries) |->
             IF entries[i][1] = key THEN <<key, value>> ELSE entries[i]]
    ELSE Append(entries, <<key, value>>)

\* for key in keys: dict[key] = value
RECURSIVE SetItems(_, _, _)
SetItems(entries, keys, value) ==
    IF keys = <<>> THEN entries
    ELSE SetItems(SetItem(entries, Head(keys), value), Tail(keys), value)

\* dict.update with multipliers in tenths
RECURSIVE Update(_, _)
Update(entries, pairs) ==
    IF pairs = <<>> THEN entries
    ELSE Update(SetItem(entries, Head(pairs)[1], Tenths(Head(pairs)[2])), Tail(pairs))

ContextualFactor(factor_type, category_boost, category_penalty, weight) ==
    [weight |-> Tenths(weight), factor_type |-> factor_type,
     category_boost |-> category_boost, category_penalty |-> category_penalty,
     reason |-> factor_type]

\* _generate_time_factor (lines 263-275): every time of day has preferences
generate_time_factor(context) ==
    ContextualFactor("time",
                     Update(<<>>, time_preferences(get_time_of_day(context.hour)).boosted),
                     SetItems(<<>>, time_preferences(get_time_of_day(context.hour)).avoid,
                              Tenths(3)),
                     12)

\* _generate_day_factor (lines 277-291)
generate_day_factor(context) ==
    ContextualFactor("day", Update(<<>>, day_preferences(context.day_name)), <<>>, 8)

\* the properties of WeatherData (weather_service.py 49-76)
is_hot(weather) == weather.temperature_celsius > 25
is_cold(weather) == weather.temperature_celsius < 10
is_rainy(weather) ==
    \/ weather.condition \in {"light_rain", "rain", "heavy_rain", "thunderstorm"}
    \/ weather.precipitation_chance > 50
is_pleasant(weather) ==
    /\ weather.condition \in {"clear", "sunny", "partly_cloudy"}
    /\ 10 <= weather.temperature_celsius /\ weather.temperature_celsius <= 25
    /\ weather.precipitation_chance < 20

\* the first branch of get_weather_business_suggestions that is taken, and
\* the branch of the condition
WeatherBranch(weather) ==
    IF is_rainy(weather) THEN "rainy"
    ELSE IF is_hot(weather) THEN "hot"
    ELSE IF is_cold(weather) THEN "cold"
    ELSE IF is_pleasant(weather) THEN "pleasant"
    ELSE "none"

ConditionBranch(weather) ==
    IF weather.condition \in {"sunny", "fog", "snow"} THEN weather.condition ELSE "none"

\* list(set(...)) removes duplicates and fixes no order; every category of
\* a list gets the same multiplier, so the order of the model (that of the
\* source) gives the same dictionary values as any other
get_weather_business_suggestions(weather) ==
    [preferred |-> WeatherLists(WeatherBranch(weather)).preferred
                       \o WeatherLists(ConditionBranch(weather)).preferred,
     avoid |-> WeatherLists(WeatherBranch(weather)).avoid
                   \o WeatherLists(ConditionBranch(weather)).avoid]

\* lines 310-333: the boosts and the weight of the kind of weather
SpecialBoosts(weather) ==
    IF is_rainy(weather) THEN << <<"indoor", 18>>, <<"covered", 16>>, <<"mall", 14>> >>
    ELSE IF is_hot(weather)
    THEN << <<"air conditioning", 16>>, <<"cold drinks", 15>>, <<"ice cream", 18>> >>
    ELSE IF is_cold(weather)
    THEN << <<"coffee", 16>>, <<"warm food", 15>>, <<"heated", 14>> >>
    ELSE <<>>

WeatherWeight(weather) ==
    IF is_rainy(weather) THEN 13
    ELSE IF is_hot(weather) \/ is_cold(weather) THEN 12
    ELSE 10

\* _generate_weather_factor (lines 293-342)
generate_weather_factor(weather) ==
    ContextualFactor("weather",
                     Update(SetItems(<<>>,
                                     get_weather_business_suggestions(weather).preferred,
                                     Tenths(15)),
                            SpecialBoosts(weather)),
                     SetItems(<<>>, get_weather_business_suggestions(weather).avoid,
                              Tenths(4)),
                     WeatherWeight(weather))

\* max of the scores of a dictionary that is not empty
RECURSIVE MaxScore(_)
MaxScore(pairs) ==
    IF Len(pairs) = 1 THEN pairs[1][2] ELSE Max2(pairs[1][2], MaxScore(Tail(pairs)))

\* lines 355-360: min(1.0 + score / max_score, 2.0) for the scores above 0;
\* no score is above max_score, so the minimum is its first argument
RECURSIVE PreferenceBoosts(_, _)
PreferenceBoosts(category_prefs, max_score) ==
    IF category_prefs = <<>> THEN <<>>
    ELSE (IF Head(category_prefs)[2] > 0
          THEN << <<Head(category_prefs)[1],
                    Fraction(max_score + Head(category_prefs)[2], max_score)>> >>
          ELSE <<>>)
         \o PreferenceBoosts(Tail(category_prefs), max_score)

\* lines 379-382: how often each category occurs in the interactions
RECURSIVE RecentCategories(_, _)
RecentCategories(interactions, counts) ==
    IF interactions = <<>> THEN counts
    ELSE RecentCategories(
             Tail(interactions),
             IF Head(interactions).category = "" THEN counts
             ELSE IF \E i \in 1..Len(counts) : counts[i][1] = Head(interactions).category
             THEN [i \in 1..Len(counts) |->
                      IF counts[i][1] = Head(interactions).category
                      THEN <<counts[i][1], counts[i][2] + 1>> ELSE counts[i]]
             ELSE Append(counts, <<Head(interactions).category, 1>>))

\* lines 384-389: 1.0 + (count / max_count) * 0.3
UsageBoosts(counts, max_count) ==
    [i \in 1..Len(counts) |->
        <<counts[i][1], Fraction(10 * max_count + 3 * counts[i][2], 10 * max_count)>>]

\* the hours of history['peak_hours']: the three hours with most
\* interactions (the interactions of the model are at three hours at most)
PeakHours(interactions) == { interactions[i].hour : i \in 1..Len(interactions) }

PreferencesFactor(history) ==
    IF history.categories = <<>> THEN <<>>
    ELSE << ContextualFactor("user_preferences",
                             PreferenceBoosts(history.categories,
                                              MaxScore(history.categories)),
                             <<>>, 11) >>

UsageFactorOf(counts) ==
    IF counts = <<>> THEN <<>>
    ELSE << ContextualFactor("usage_patterns", UsageBoosts(counts, MaxScore(counts)),
                             <<>>, 9) >>

UsageFactor(context, history) ==
    IF context.hour \notin PeakHours(history.recent_interactions) THEN <<>>
    ELSE UsageFactorOf(RecentCategories(LastN(history.recent_interactions, 20), <<>>))

\* _generate_history_factors (lines 344-400); a history is the recent
\* interactions (category and hour of each) and the preferred categories
\* with their scores in tenths
generate_history_factors(context) ==
    IF IsNone(context.user_history) THEN <<>>
    ELSE PreferencesFactor(The(context.user_history))
             \o UsageFactor(context, The(context.user_history))

\* generate_contextual_factors (lines 236-261)
generate_contextual_factors(context) ==
    << generate_time_factor(context), generate_day_factor(context) >>
        \o (IF IsNone(context.weather_data) THEN <<>>
            ELSE << generate_weather_factor(The(context.weather_data)) >>)
        \o generate_history_factors(context)

\* f"{category} {tags}".lower() of a business
combined_text(business) ==
    Lower(Chars(business.business_category) \o <<" ">> \o Chars(business.business_tags))

\* the multiplier of the first category of a dictionary that occurs in the
\* text (the loops of lines 424-428 and 431-435 with their break)
RECURSIVE FirstMatch(_, _)
FirstMatch(entries, text) ==
    IF entries = <<>> THEN None
    ELSE IF Contains(text, Lower(Chars(Head(entries)[1]))) THEN Some(Head(entries)[2])
    ELSE FirstMatch(Tail(entries), text)

\* lines 420-438 for one factor, the running contextual_score and
\* applied_factors being acc
AfterFactorWith(acc, factor, boost, penalty) ==
    [score |-> Times(Times(acc.score,
                           IF IsNone(boost) THEN One
                           ELSE Times(The(boost), factor.weight)),
                     IF IsNone(penalty) THEN One ELSE DividedBy(The(penalty), factor.weight)),
     applied |-> IF IsNone(boost) /\ IsNone(penalty) THEN acc.applied
                 ELSE Append(acc.applied, factor.reason)]

RECURSIVE AfterFactors(_, _, _)
AfterFactors(acc, factors, text) ==
    IF factors = <<>> THEN acc
    ELSE AfterFactors(AfterFactorWith(acc, Head(factors),
                                      FirstMatch(Head(factors).category_boost, text),
                                      FirstMatch(Head(factors).category_penalty, text)),
                      Tail(factors), text)

\* business.get('vector_score', business.get('distance_km', 0))
original_score(business) ==
    IF ~IsNone(business.vector_score) THEN Tenths(The(business.vector_score))
    ELSE IF ~IsNone(business.distance_km) THEN Fraction(The(business.distance_km), 100)
    ELSE Fraction(0, 1)

\* lines 445-452
final_score(business, contextual_score) ==
    IF ~IsNone(business.distance_km)
    THEN DividedBy(Fraction(The(business.distance_km), 100), contextual_score)
    ELSE IF ~IsNone(business.vector_score)
    THEN DividedBy(Tenths(The(business.vector_score)), contextual_score)
    ELSE DividedBy(One, contextual_score)

\* business_copy with its four new keys (lines 413, 440-452)
ScoredWith(business, acc) ==
    business @@ [original_score |-> original_score(business),
                 final_score |-> final_score(business, acc.score),
                 contextual_score |-> acc.score,
                 applied_factors |-> acc.applied]

ScoredBusiness(business, factors) ==
    ScoredWith(business,
               AfterFactors([score |-> One, applied |-> <<>>], factors,
                            combined_text(business)))

\* scored_businesses.sort(key=lambda x: x['final_score']): a stable sort
RECURSIVE InsertAscending(_, _)
InsertAscending(sorted, item) ==
    IF sorted = <<>> THEN <<item>>
    ELSE IF LessThan(item.final_score, Head(sorted).final_score) THEN <<item>> \o sorted
    ELSE <<Head(sorted)>> \o InsertAscending(Tail(sorted), item)

RECURSIVE SortByFinalScore(_)
SortByFinalScore(items) ==
    IF items = <<>> THEN <<>>
    ELSE InsertAscending(SortByFinalScore(SubSeq(items, 1, Len(items) - 1)),
                         items[Len(items)])

\* what a call leaves: the list it returns and the caller's list
Applied(returned, businesses) == [businesses |-> businesses, returned |-> returned]

\* a mutant of apply_contextual_factors: the scores are written into the
\* records of the caller and the caller's list is sorted
apply_contextual_factors_InPlace(businesses, factors) ==
    IF factors = <<>> \/ businesses = <<>> THEN Applied(businesses, businesses)
    ELSE Applied(SortByFinalScore([i \in 1..Len(businesses) |->
                                      ScoredBusiness(businesses[i], factors)]),
                 SortByFinalScore([i \in 1..Len(businesses) |->
                                      ScoredBusiness(businesses[i], factors)]))

\* apply_contextual_factors (lines 402-461)
apply_contextual_factors(businesses, factors) ==
    IF factors = <<>> \/ businesses = <<>> THEN Applied(businesses, businesses)
    ELSE Applied(SortByFinalScore([i \in 1..Len(businesses) |->
                                      ScoredBusiness(businesses[i], factors)]),
                 businesses)

\* the inputs of the adjuster
Weather(temperature_celsius, condition, precipitation_chance) ==
    [temperature_celsius |-> temperature_celsius, condition |-> condition,
     precipitation_chance |-> precipitation_chance]

Rain == Weather(18, "rain", 80)
Showers == Weather(20, "partly_cloudy", 60)
Heat == Weather(30, "sunny", 0)
Frost == Weather(-2, "snow", 40)
Mild == Weather(20, "clear", 10)
Mist == Weather(15, "fog", 30)
Grey == Weather(15, "cloudy", 30)

Weathers == { Rain, Showers, Heat, Frost, Mild, Mist, Grey }

Visit(category, hour) == [category |-> category, hour |-> hour]

\* a user of restaurants at noon, and a user seen once in the evening
Regular ==
    [categories |-> << <<"restaurant", 30>>, <<"cafe", 10>>, <<"hardware", 0>> >>,
     recent_interactions |-> << Visit("restaurant", 12), Visit("cafe", 12),
                                Visit("restaurant", 12), Visit("", 19),
                                Visit("restaurant", 12) >>]

Occasional ==
    [categories |-> <<>>, recent_interactions |-> << Visit("cafe", 20) >>]

Histories == { Regular, Occasional }

Days == {"monday", "tuesday", "wednesday", "thursday", "friday", "saturday", "sunday"}

\* one hour of each time of day
Hours == {6, 9, 11, 12, 15, 17, 20, 22, 2}

Context(hour, day_name, weather_data, user_history) ==
    [day_name |-> day_name, hour |-> hour, user_history |-> user_history,
     weather_data |-> weather_data]

Contexts ==
    { Context(hour, day_name, None, None) : hour \in Hours, day_name \in Days }
        \cup { Context(hour, day_name, weather_data, user_history) :
                 hour \in {12, 20}, day_name \in {"tuesday"},
                 weather_data \in {None} \cup { Some(w) : w \in Weathers },
                 user_history \in {None} \cup { Some(h) : h \in Histories } }

Candidate(name, business_category, business_tags, distance_km, vector_score) ==
    [name |-> name, business_category |-> business_category,
     business_tags |-> business_tags, vector_score |-> vector_score,
     distance_km |-> distance_km]

\* two records that differ in the category alone, at a distance or with a
\* vector score
Twins(category, other, distance_km, vector_score) ==
    << Candidate("Corner", other, "", distance_km, vector_score),
       Candidate("Corner", category, "", distance_km, vector_score) >>

Mall(distance_km) == Candidate("Mall", "shopping", "indoor mall", Some(distance_km), None)
Market(distance_km) ==
    Candidate("Market", "shopping", "outdoor market", Some(distance_km), None)

\* distances in hundredths of a kilometre
Distances == {0, 50, 120}

BusinessLists ==
    { <<>> }
        \cup { Twins(category, "hardware", Some(d), None) :
                 category \in {"restaurant", "breakfast restaurant", "cafe"},
                 d \in Distances }
        \cup { Twins("restaurant", "hardware", None, Some(7)),
               Twins("bakery", "hardware", None, None) }
        \cup { << Market(d), Mall(d) >> : d \in Distances }
        \cup { << Mall(50), Market(50) >>,
               << Market(50), Candidate("Corner", "restaurant", "", Some(120), None),
                  Mall(120), Candidate("Corner", "cafe", "lunch", None, Some(7)) >> }

\* the factors of the given types, in their order
SelectFactors(factors, types) ==
    SelectSeq(factors, LAMBDA factor : factor.factor_type \in types)

FactorTypes == {"time", "day", "weather", "user_preferences", "usage_patterns"}

\* which of the generated factors a caller hands over
FactorSelections == { FactorTypes, {}, {"time"}, {"weather"} }

ContextInit ==
    /\ record_in = None
    /\ parsedAs = [f \in Formats |-> None]
    /\ fragment = None
    /\ parsed = None
    /\ request = None
    /\ retrieved = None
    /\ out = None
    /\ prev = None
    /\ rated = None
    /\ store = None
    /\ now = 0
    /\ cf = None
    /\ call = None
    /\ asked = None

\* requests that are followed
MaxRequests == 1

Requests == IF IsNone(call) THEN 0 ELSE The(call).requests

ContextCall(op, context, generated, factors, businesses, applied, requests) ==
    /\ call' = Some([businesses |-> businesses, requests |-> requests, op |-> op,
                     context |-> context, factors |-> factors,
                     returned |-> applied.returned, generated |-> generated,
                     after |-> applied.businesses])
    /\ UNCHANGED <<rated, store, now, cf, asked>>
    /\ UNCHANGED parseVars
    /\ UNCHANGED searchVars

\* generate_contextual_factors for the context of a request
GenerateContextualFactors ==
    /\ IsNone(call) \/ Called("apply_contextual_factors")
    /\ Requests < MaxRequests
    /\ \E context \in Contexts :
          ContextCall("generate_contextual_factors", context,
                      generate_contextual_factors(context),
                      generate_contextual_factors(context), <<>>, Applied(<<>>, <<>>),
                      Requests + 1)

ApplyWith(businesses, factors) ==
    ContextCall("apply_contextual_factors", The(call).context, The(call).generated,
                factors, businesses, apply_contextual_factors(businesses, factors),
                Requests)

\* apply_contextual_factors with factors of the context
ApplyContextualFactors ==
    /\ Called("generate_contextual_factors")
    /\ \E businesses \in BusinessLists, types \in FactorSelections :
          ApplyWith(businesses, SelectFactors(The(call).generated, types))

ContextNext ==
    \/ GenerateContextualFactors
    \/ ApplyContextualFactors

SpecContext == ContextInit /\ [][ContextNext]_vars

\* a boost entry that raises no score, a penalty entry that lowers none
BoostRaises(factor, entry) == ~LessThan(Times(entry[2], factor.weight), One)
PenaltyLowers(factor, entry) == ~LessThan(One, DividedBy(entry[2], factor.weight))

FactorIsMonotone(factor) ==
    /\ \A i \in 1..Len(factor.category_boost) :
          BoostRaises(factor, factor.category_boost[i])
    /\ \A i \in 1..Len(factor.category_penalty) :
          PenaltyLowers(factor, factor.category_penalty[i])

Generated == IF IsNone(call) THEN <<>> ELSE The(call).generated

\* C28: for every factor that generate_contextual_factors produces,
\* multiplier * weight >= 1 for each boost entry and multiplier / weight <= 1
\* for each penalty entry, so a boost match never lowers a contextual score
\* and a penalty match never raises it.
C28_MatchesAreMonotone ==
    \A i \in 1..Len(Generated) : FactorIsMonotone(Generated[i])

\* C28, what holds: the entries of the time factor, of the weather factor and
\* of the user_preferences factor are monotone, and so is every penalty.
C28_MonotoneButDayAndUsage ==
    \A i \in 1..Len(Generated) :
        /\ Generated[i].factor_type \in {"time", "weather", "user_preferences"} =>
              FactorIsMonotone(Generated[i])
        /\ \A k \in 1..Len(Generated[i].category_penalty) :
              PenaltyLowers(Generated[i], Generated[i].category_penalty[k])

\* the call applied factors, the time factor among them, to two records
\* that differ in the category alone
TwinsApplied ==
    /\ Called("apply_contextual_factors")
    /\ \E k \in 1..Len(The(call).factors) : The(call).factors[k].factor_type = "time"
    /\ Len(The(call).businesses) = 2
    /\ \E category \in {"restaurant", "breakfast restaurant", "cafe", "bakery"} :
          The(call).businesses
              = Twins(category, "hardware", The(call).businesses[1].distance_km,
                      The(call).businesses[1].vector_score)

TimeFactorApplied ==
    The(call).factors[CHOOSE k \in 1..Len(The(call).factors) :
                          The(call).factors[k].factor_type = "time"]

\* the record of the output with the category
ReturnedOf(category) ==
    The(call).returned[CHOOSE i \in 1..Len(The(call).returned) :
                           The(call).returned[i].business_category = category]

\* the category of the second twin matches a boosted category of the time
\* of day and no factor matches the first twin
BoostedTwinApplied ==
    /\ TwinsApplied
    /\ ~IsNone(FirstMatch(TimeFactorApplied.category_boost,
                          Lower(Chars(The(call).businesses[2].business_category))))
    /\ ReturnedOf("hardware").applied_factors = <<>>

BoostedTwinIsLower ==
    LessThan(ReturnedOf(The(call).businesses[2].business_category).final_score,
             ReturnedOf("hardware").final_score)

\* C22: with the time factor active, a record whose category matches a
\* boosted category of the time of day gets a strictly lower final_score
\* than a record that differs in the category alone and matches nothing,
\* for every distance_km and vector_score.
C22_BoostedTwinRanksLower == BoostedTwinApplied => BoostedTwinIsLower

\* C22, what holds: it is so when the category matches no avoided category
\* of the time of day and the distance is not 0.
C22_LowerUnlessAvoidedOrAtZero ==
    (/\ BoostedTwinApplied
     /\ IsNone(FirstMatch(TimeFactorApplied.category_penalty,
                          Lower(Chars(The(call).businesses[2].business_category))))
     /\ The(call).businesses[2].distance_km # Some(0)) => BoostedTwinIsLower

\* C22: a boosted twin at a distance got the lower final_score
C22_WitnessLower ==
    /\ BoostedTwinApplied
    /\ The(call).businesses[2].distance_km = Some(50)
    /\ BoostedTwinIsLower

\* C22: a twin that the time of day both boosts and avoids, at a distance
C22_WitnessAvoided ==
    /\ BoostedTwinApplied
    /\ The(call).businesses[2].distance_km = Some(50)
    /\ ~IsNone(FirstMatch(TimeFactorApplied.category_penalty,
                          Lower(Chars(The(call).businesses[2].business_category))))
    /\ LessThan(ReturnedOf("hardware").final_score,
                ReturnedOf("breakfast restaurant").final_score)

\* the place of the record with the name in a list that holds it
PlaceOf(name, list) == CHOOSE i \in 1..Len(list) : list[i].name = name

\* the call applied factors, the weather factor of a rainy snapshot among
\* them, to the mall and the market at one distance
RainyApplied ==
    /\ Called("apply_contextual_factors")
    /\ ~IsNone(The(call).context.weather_data)
    /\ is_rainy(The(The(call).context.weather_data))
    /\ \E k \in 1..Len(The(call).factors) : The(call).factors[k].factor_type = "weather"
    /\ \E d \in Distances :
          The(call).businesses \in { << Market(d), Mall(d) >>, << Mall(d), Market(d) >> }

ReturnedMall == The(call).returned[PlaceOf("Mall", The(call).returned)]
ReturnedMarket == The(call).returned[PlaceOf("Market", The(call).returned)]

\* the weather factor matched both, the mall with a boost and the market
\* with a penalty
MallBoostedMarketPenalised ==
    /\ InSeq("weather", ReturnedMall.applied_factors)
    /\ InSeq("weather", ReturnedMarket.applied_factors)
    /\ LessThan(One, ReturnedMall.contextual_score)
    /\ LessThan(ReturnedMarket.contextual_score, One)

MallFirst == PlaceOf("Mall", The(call).returned) < PlaceOf("Market", The(call).returned)

\* C23 (scenario D): with a snapshot whose is_rainy is true the weather
\* factor multiplies the contextual score of the candidate tagged "indoor
\* mall" by a boost and that of the candidate tagged "outdoor market" by a
\* penalty, and whenever the two start with equal distances the mall is
\* before the market in the output.
C23_RainyMallOutranksMarket ==
    RainyApplied => MallBoostedMarketPenalised /\ MallFirst

\* C23, what holds: the boost and the penalty are applied at every
\* distance, and the mall is first when the distance is not 0 or the mall
\* was first in the input.
C23_MallFirstUnlessAtZero ==
    RainyApplied =>
        /\ MallBoostedMarketPenalised
        /\ (The(call).businesses[1].distance_km # Some(0)
               \/ The(call).businesses[1].name = "Mall") => MallFirst

\* C23: the market came first and the mall left the call first
C23_WitnessOvertakes ==
    /\ RainyApplied
    /\ The(call).businesses = << Market(120), Mall(120) >>
    /\ MallFirst

\* C23: at distance 0 the market stays first
C23_WitnessAtZero ==
    /\ RainyApplied
    /\ The(call).businesses = << Market(0), Mall(0) >>
    /\ MallBoostedMarketPenalised
    /\ ~MallFirst

\* a record of the output without the four keys the call adds
InputOf(scored) ==
    Candidate(scored.name, scored.business_category, scored.business_tags,
              scored.distance_km, scored.vector_score)

\* the output holds the records of the input, each once
IsPermutationOf(returned, businesses) ==
    /\ Len(returned) = Len(businesses)
    /\ \E p \in Permutations(1..Len(businesses)) :
          \A i \in 1..Len(returned) : InputOf(returned[i]) = businesses[p[i]]

IsAscending(returned) ==
    \A i \in 1..Len(returned) : \A j \in i..Len(returned) :
        ~LessThan(returned[j].final_score, returned[i].final_score)

C29_WitnessNoFactors ==
    /\ Called("apply_contextual_factors")
    /\ The(call).generated # <<>>
    /\ The(call).factors = <<>>
    /\ Len(The(call).businesses) = 2
    /\ The(call).returned = The(call).businesses

=============================================================================
